---------------------------- MODULE Spec2Model ----------------------------
(***************************************************************************)
(* TapKit MCP server: the stateless OAuth 2.1 authorization-code layer     *)
(* (Code Codec, PKCE verifier, authorize / callback / token endpoints),    *)
(* specification Spec, and the session registry and reconciler of the MCP  *)
(* endpoint, specification McpSpec.                                        *)
(*                                                                         *)
(* Strings are sequences of code points (naturals).  A JavaScript value is *)
(* a record [t, v]: t is "str", "num", "null", "undef" or "obj", and v is  *)
(* the string, <<n>> for a number, the member list <<<<key, value>>, ...>> *)
(* for an object, and <<>> otherwise.                                      *)
(***************************************************************************)
EXTENDS Integers, Sequences, FiniteSets, TLC

(***************************************************************************)
(* Bounds of the model.                                                    *)
(***************************************************************************)
\* how many times the clock advances in one behaviour
MaxTicks == 2
\* authorization flows (authorize, callback) start while the clock advanced
\* at most this many times; codes are redeemed at any time after
MaxFlowTicks == 0
\* how many requests reach the MCP endpoint in one behaviour
MaxRequests == 3
\* how many of them are being handled at once
MaxInFlight == 2

(***************************************************************************)
(* JavaScript values.                                                      *)
(***************************************************************************)
Str(s) == [t |-> "str", v |-> s]
Num(n) == [t |-> "num", v |-> <<n>>]
Null == [t |-> "null", v |-> <<>>]
Undef == [t |-> "undef", v |-> <<>>]
Obj(members) == [t |-> "obj", v |-> members]

\* !x is false exactly for these
Truthy(x) ==
  \/ x.t = "str" /\ x.v # <<>>
  \/ x.t = "num" /\ x.v[1] # 0
  \/ x.t = "obj"

\* a || b
OrElse(a, b) == IF Truthy(a) THEN a ELSE b

\* obj[key] of a parsed JSON value; a later duplicate key wins.  Reading a
\* property of null throws a TypeError: callers test IsNullish first.
Get(obj, key) ==
  IF obj.t # "obj" THEN Undef
  ELSE LET hits == {i \in 1..Len(obj.v) : obj.v[i][1] = key}
       IN IF hits = {} THEN Undef
          ELSE obj.v[CHOOSE i \in hits : \A j \in hits : j <= i][2]

IsNullish(x) == x.t \in {"null", "undef"}

(***************************************************************************)
(* String literals of the source.                                          *)
(***************************************************************************)
(* "accessToken" *)
S_accessToken == <<97, 99, 99, 101, 115, 115, 84, 111, 107, 101, 110>>
(* "refreshToken" *)
S_refreshToken == <<114, 101, 102, 114, 101, 115, 104, 84, 111, 107, 101, 110>>
(* "codeChallenge" *)
S_codeChallenge == <<99, 111, 100, 101, 67, 104, 97, 108, 108, 101, 110, 103, 101>>
(* "codeChallengeMethod" *)
S_codeChallengeMethod == <<99, 111, 100, 101, 67, 104, 97, 108, 108, 101, 110, 103, 101, 77, 101, 116, 104, 111, 100>>
(* "createdAt" *)
S_createdAt == <<99, 114, 101, 97, 116, 101, 100, 65, 116>>
(* "client_redirect_uri" *)
S_client_redirect_uri == <<99, 108, 105, 101, 110, 116, 95, 114, 101, 100, 105, 114, 101, 99, 116, 95, 117, 114, 105>>
(* "client_state" *)
S_client_state == <<99, 108, 105, 101, 110, 116, 95, 115, 116, 97, 116, 101>>
(* "code_challenge" *)
S_code_challenge == <<99, 111, 100, 101, 95, 99, 104, 97, 108, 108, 101, 110, 103, 101>>
(* "code_challenge_method" *)
S_code_challenge_method == <<99, 111, 100, 101, 95, 99, 104, 97, 108, 108, 101, 110, 103, 101, 95, 109, 101, 116, 104, 111, 100>>
(* "scope" *)
S_scope == <<115, 99, 111, 112, 101>>
(* "null" *)
S_null == <<110, 117, 108, 108>>
(* "undefined" *)
S_undefined == <<117, 110, 100, 101, 102, 105, 110, 101, 100>>
(* "authorization_code" *)
S_authorization_code == <<97, 117, 116, 104, 111, 114, 105, 122, 97, 116, 105, 111, 110, 95, 99, 111, 100, 101>>
(* "refresh_token" *)
S_refresh_token == <<114, 101, 102, 114, 101, 115, 104, 95, 116, 111, 107, 101, 110>>
(* "S256" *)
S_S256 == <<83, 50, 53, 54>>
(* "plain" *)
S_plain == <<112, 108, 97, 105, 110>>

(***************************************************************************)
(* Sequence helpers.                                                       *)
(***************************************************************************)
MinOf(S) == CHOOSE x \in S : \A y \in S : x <= y

\* s with every a replaced by b (String.prototype.replace with a /a/g pattern)
ReplaceAll(s, a, b) == [i \in 1..Len(s) |-> IF s[i] = a THEN b ELSE s[i]]

\* the decimal digits of a natural (Number to string, for integers)
RECURSIVE Digits(_)
Digits(n) == IF n < 10 THEN <<48 + n>> ELSE Append(Digits(n \div 10), 48 + (n % 10))

(***************************************************************************)
(* Base64 (btoa / atob, the forgiving-base64 algorithms of the platform).  *)
(***************************************************************************)
B64Char(x) ==
  IF x < 26 THEN 65 + x
  ELSE IF x < 52 THEN 97 + (x - 26)
  ELSE IF x < 62 THEN 48 + (x - 52)
  ELSE IF x = 62 THEN 43 ELSE 47

\* the 6-bit value of a base64 character, -1 for a character outside the alphabet
B64Val(c) ==
  IF c >= 65 /\ c <= 90 THEN c - 65
  ELSE IF c >= 97 /\ c <= 122 THEN c - 97 + 26
  ELSE IF c >= 48 /\ c <= 57 THEN c - 48 + 52
  ELSE IF c = 43 THEN 62
  ELSE IF c = 47 THEN 63 ELSE -1

ByteAt(bs, k) == IF k <= Len(bs) THEN bs[k] ELSE 0

\* base64 of a byte sequence, '=' padded
B64Encode(bs) ==
  LET n == Len(bs)
      outLen == 4 * ((n + 2) \div 3)
  IN [j \in 1..outLen |->
        LET g == (j - 1) \div 4
            p == (j - 1) % 4
            b0 == ByteAt(bs, 3 * g + 1)
            b1 == ByteAt(bs, 3 * g + 2)
            b2 == ByteAt(bs, 3 * g + 3)
        IN IF p = 0 THEN B64Char(b0 \div 4)
           ELSE IF p = 1 THEN B64Char((b0 % 4) * 16 + (b1 \div 16))
           ELSE IF p = 2 THEN (IF 3 * g + 2 > n THEN 61
                               ELSE B64Char((b1 % 16) * 4 + (b2 \div 64)))
           ELSE (IF 3 * g + 3 > n THEN 61 ELSE B64Char(b2 % 64))]

\* btoa(s): throws InvalidCharacterError when s holds a code point above U+00FF
btoa(s) ==
  IF \E i \in 1..Len(s) : s[i] > 255 THEN [ok |-> FALSE, v |-> <<>>]
  ELSE [ok |-> TRUE, v |-> B64Encode(s)]

IsAsciiWhitespace(c) == c \in {9, 10, 12, 13, 32}

\* atob(s), forgiving-base64 decode: ASCII whitespace is removed, one or two
\* trailing '=' are removed when the length is a multiple of 4, a length of
\* 4k+1 or a character outside the alphabet fails, and the bits left over after
\* the last whole byte are discarded without being looked at.
atob(s) ==
  LET Cut(d0) == IF Len(d0) % 4 = 0 /\ Len(d0) > 0 /\ d0[Len(d0)] = 61
                 THEN (IF Len(d0) > 1 /\ d0[Len(d0) - 1] = 61 THEN 2 ELSE 1)
                 ELSE 0
      Sextet(d, j) == IF j <= Len(d) THEN B64Val(d[j]) ELSE 0
      Byte(d, g, q) ==
        IF q = 0 THEN Sextet(d, 4 * g + 1) * 4 + (Sextet(d, 4 * g + 2) \div 16)
        ELSE IF q = 1 THEN (Sextet(d, 4 * g + 2) % 16) * 16 + (Sextet(d, 4 * g + 3) \div 4)
        ELSE (Sextet(d, 4 * g + 3) % 4) * 64 + Sextet(d, 4 * g + 4)
      Decode(d) ==
        IF Len(d) % 4 = 1 \/ \E i \in 1..Len(d) : B64Val(d[i]) < 0
        THEN [ok |-> FALSE, v |-> <<>>]
        ELSE [ok |-> TRUE,
              v |-> [k \in 1..((Len(d) * 6) \div 8) |-> Byte(d, (k - 1) \div 3, (k - 1) % 3)]]
      Trim(d0) == Decode(SubSeq(d0, 1, Len(d0) - Cut(d0)))
  IN Trim(SelectSeq(s, LAMBDA c : ~IsAsciiWhitespace(c)))

RECURSIVE StripTrailing(_, _)
StripTrailing(s, c) ==
  IF Len(s) > 0 /\ s[Len(s)] = c THEN StripTrailing(SubSeq(s, 1, Len(s) - 1), c) ELSE s

\* '+' -> '-', '/' -> '_', trailing '=' removed
base64ToBase64Url(base64) ==
  StripTrailing(ReplaceAll(ReplaceAll(base64, 43, 45), 47, 95), 61)

\* '-' -> '+', '_' -> '/', then '=' appended while the length is no multiple of 4
base64UrlToBase64(base64Url) ==
  LET Pad(b) == b \o [i \in 1..((4 - (Len(b) % 4)) % 4) |-> 61]
  IN Pad(ReplaceAll(ReplaceAll(base64Url, 45, 43), 95, 47))

(***************************************************************************)
(* JSON.stringify / JSON.parse, for the values the endpoints serialise:    *)
(* an object whose members are strings, numbers or null, or such a scalar  *)
(* alone.  Model strings hold no control characters and no surrogates, so  *)
(* the only escapes are \" and \\.                                         *)
(***************************************************************************)
\* s[lo..hi] with '"' and '\' escaped, computed by halving
RECURSIVE EscapeRange(_, _, _)
EscapeRange(s, lo, hi) ==
  IF lo > hi THEN <<>>
  ELSE IF lo = hi THEN (IF s[lo] \in {34, 92} THEN <<92, s[lo]>> ELSE <<s[lo]>>)
  ELSE LET mid == (lo + hi) \div 2
       IN EscapeRange(s, lo, mid) \o EscapeRange(s, mid + 1, hi)

QuoteJson(s) == <<34>> \o EscapeRange(s, 1, Len(s)) \o <<34>>

\* a scalar as JSON text
ScalarJson(x) ==
  IF x.t = "str" THEN QuoteJson(x.v)
  ELSE IF x.t = "num" THEN Digits(x.v[1])
  ELSE S_null

\* the members of an object from the i-th on; a member whose value is
\* undefined is left out
RECURSIVE MembersJson(_, _, _)
MembersJson(members, i, first) ==
  IF i > Len(members) THEN <<>>
  ELSE IF members[i][2].t = "undef" THEN MembersJson(members, i + 1, first)
  ELSE (IF first THEN <<>> ELSE <<44>>)
       \o QuoteJson(members[i][1]) \o <<58>> \o ScalarJson(members[i][2])
       \o MembersJson(members, i + 1, FALSE)

JsonStringify(x) ==
  IF x.t = "obj" THEN <<123>> \o MembersJson(x.v, 1, TRUE) \o <<125>>
  ELSE ScalarJson(x)

ParseFail == [ok |-> FALSE, val |-> Undef, next |-> 0]

\* the string literal whose opening quote is s[i - 1].  A backslash starts an
\* escape when an even number of backslashes runs up to it; the literal ends
\* at the first quote that no escape covers; only \" and \\ are escapes and a
\* control character is an error.
ScanString(s, i) ==
  LET Run(p) == Cardinality({k \in 1..(p - i) : \A m \in 1..k : s[p - m] = 92})
      Covered(p) == Run(p) % 2 = 1
      Escaping(p) == s[p] = 92 /\ ~Covered(p)
      Unescaped(kept) ==
        [k \in 1..Cardinality(kept) |->
           s[CHOOSE p \in kept : Cardinality({q \in kept : q <= p}) = k]]
      Literal(close) ==
        IF \E p \in i..(close - 1) : s[p] < 32 \/ (Covered(p) /\ s[p] \notin {34, 92})
        THEN ParseFail
        ELSE [ok |-> TRUE,
              val |-> Str(Unescaped({p \in i..(close - 1) : ~Escaping(p)})),
              next |-> close + 1]
      Closers(closers) == IF closers = {} THEN ParseFail ELSE Literal(MinOf(closers))
  IN Closers({j \in i..Len(s) : s[j] = 34 /\ ~Covered(j)})

ParseString(s, i) ==
  IF i <= Len(s) /\ s[i] = 34 THEN ScanString(s, i + 1) ELSE ParseFail

IsDigit(c) == c >= 48 /\ c <= 57

RECURSIVE ScanNumber(_, _, _)
ScanNumber(s, i, acc) ==
  IF i <= Len(s) /\ IsDigit(s[i]) THEN ScanNumber(s, i + 1, acc * 10 + (s[i] - 48))
  ELSE [ok |-> TRUE, val |-> Num(acc), next |-> i]

\* a non-negative integer without a leading zero
ParseNumber(s, i) ==
  IF i > Len(s) \/ ~IsDigit(s[i]) THEN ParseFail
  ELSE IF s[i] = 48 /\ i + 1 <= Len(s) /\ IsDigit(s[i + 1]) THEN ParseFail
  ELSE ScanNumber(s, i, 0)

ParseScalar(s, i) ==
  IF i > Len(s) THEN ParseFail
  ELSE IF s[i] = 34 THEN ParseString(s, i)
  ELSE IF IsDigit(s[i]) THEN ParseNumber(s, i)
  ELSE IF i + 3 <= Len(s) /\ SubSeq(s, i, i + 3) = S_null
       THEN [ok |-> TRUE, val |-> Null, next |-> i + 4]
  ELSE ParseFail

RECURSIVE ParseMembers(_, _, _)
ParseMembers(s, i, acc) ==
  LET Member(key, val, got) ==
        IF ~val.ok \/ val.next > Len(s) THEN ParseFail
        ELSE IF s[val.next] = 44 THEN ParseMembers(s, val.next + 1, got)
        ELSE IF s[val.next] = 125 THEN [ok |-> TRUE, val |-> Obj(got), next |-> val.next + 1]
        ELSE ParseFail
      Value(key, val) == Member(key, val, Append(acc, <<key.val.v, val.val>>))
      Key(key) == Value(key, IF key.ok /\ key.next <= Len(s) /\ s[key.next] = 58
                             THEN ParseScalar(s, key.next + 1) ELSE ParseFail)
  IN Key(ParseString(s, i))

ParseValue(s, i) ==
  IF i <= Len(s) /\ s[i] = 123
  THEN (IF i + 1 <= Len(s) /\ s[i + 1] = 125
        THEN [ok |-> TRUE, val |-> Obj(<<>>), next |-> i + 2]
        ELSE ParseMembers(s, i + 1, <<>>))
  ELSE ParseScalar(s, i)

\* JSON.parse(text): ok is FALSE where it throws a SyntaxError
JsonParse(s) ==
  LET Whole(r) == IF r.ok /\ r.next = Len(s) + 1 THEN [ok |-> TRUE, val |-> r.val]
                  ELSE [ok |-> FALSE, val |-> Undef]
  IN Whole(ParseValue(s, 1))

(***************************************************************************)
(* SHA-256 and HMAC-SHA256 (crypto.subtle).  The digest is 32 bytes; the   *)
(* model computes it from a rolling hash of the input, which stands for an *)
(* ideal hash: a party that does not hold the key cannot compute the HMAC   *)
(* of an input it was never given.                                         *)
(***************************************************************************)
DIGEST_BYTES == 32

\* a hash of s[lo..hi], computed by halving so that the evaluation stays shallow
RECURSIVE HashRange(_, _, _)
HashRange(s, lo, hi) ==
  IF lo > hi THEN 1
  ELSE IF lo = hi THEN ((s[lo] + 1) * 257 + lo) % 65521
  ELSE LET mid == (lo + hi) \div 2
       IN (HashRange(s, lo, mid) * 31 + HashRange(s, mid + 1, hi) * 17 + 1) % 65521

DigestOf(seed) ==
  [k \in 1..DIGEST_BYTES |->
     IF k = 1 THEN seed % 256
     ELSE IF k = 2 THEN (seed \div 256) % 256
     ELSE (seed * k + 7 * k) % 256]

Sha256(data) == DigestOf(HashRange(data, 1, Len(data)))

HmacSha256(key, data) ==
  DigestOf((HashRange(key, 1, Len(key)) * 263 + HashRange(data, 1, Len(data)) + 11) % 65521)

\* a verification that accepts every signature
AcceptAnySignature(key, signature, data) == TRUE

\* crypto.subtle.verify('HMAC', key, signature, data): the signature equals
\* the freshly computed digest, byte for byte and over its full length
HmacVerify(key, signature, data) == signature = HmacSha256(key, data)

(***************************************************************************)
(* Code Codec (oauth-store): generateCode and verifyCode.                  *)
(***************************************************************************)
\* process.env.OAUTH_SIGNING_SECRET, a secret only the server holds ("sK")
SIGNING_SECRET == <<115, 75>>

\* a payload with the two tokens in each other's place
TokensSwapped(accessToken, refreshToken, codeChallenge, codeChallengeMethod) ==
  Obj(<< <<S_accessToken, refreshToken>>,
         <<S_refreshToken, accessToken>>,
         <<S_codeChallenge, codeChallenge>>,
         <<S_codeChallengeMethod, codeChallengeMethod>> >>)

\* the payload handleTokens passes to generateCode
CodePayload(accessToken, refreshToken, codeChallenge, codeChallengeMethod) ==
  Obj(<< <<S_accessToken, accessToken>>,
         <<S_refreshToken, refreshToken>>,
         <<S_codeChallenge, codeChallenge>>,
         <<S_codeChallengeMethod, codeChallengeMethod>> >>)

\* generateCode(payload) at Date.now() = now.  ok is FALSE where the promise
\* rejects (btoa throws on a payload JSON that is not Latin-1).
generateCode(payload, now) ==
  LET Signed(data, payloadBase64, signatureBase64) ==
        [ok |-> TRUE,
         code |-> base64ToBase64Url(payloadBase64) \o <<46>>
                  \o base64ToBase64Url(signatureBase64),
         data |-> data]
      Encoded(data, payloadBase64) ==
        IF ~payloadBase64.ok THEN [ok |-> FALSE, code |-> <<>>, data |-> data]
        ELSE Signed(data, payloadBase64.v,
                    B64Encode(HmacSha256(SIGNING_SECRET, payloadBase64.v)))
      Stamped(data) == Encoded(data, btoa(JsonStringify(data)))
  IN Stamped(Obj(payload.v \o << <<S_createdAt, Num(now)>> >>))

\* code.split('.'), of which verifyCode takes the first two pieces; a piece
\* that does not exist is undefined
SplitDot(code) ==
  LET FirstOf(S) == IF S = {} THEN Len(code) + 1 ELSE MinOf(S)
      Pieces(dots, d1) ==
        [first |-> Str(SubSeq(code, 1, d1 - 1)),
         second |-> IF dots = {} THEN Undef
                    ELSE Str(SubSeq(code, d1 + 1, FirstOf({i \in dots : i > d1}) - 1))]
      Dots(dots) == Pieces(dots, FirstOf(dots))
  IN Dots({i \in 1..Len(code) : code[i] = 46})

CODE_TTL_MS == 10 * 60 * 1000

\* a codec whose codes never expire
NeverExpired(payload, now) == FALSE

\* a codec whose codes are good at the instant they are minted and never after
SpentAtOnce(payload, now) ==
  LET createdAt == Get(payload, S_createdAt)
  IN createdAt.t = "num" /\ now - createdAt.v[1] > 0

\* Date.now() - payload.createdAt > 10 * 60 * 1000; with a createdAt that is
\* no number the difference is NaN and the comparison is false
Expired(payload, now) ==
  LET createdAt == Get(payload, S_createdAt)
  IN createdAt.t = "num" /\ now - createdAt.v[1] > CODE_TTL_MS

VerifyNull == [ok |-> FALSE, payload |-> Null]

\* verifyCode(code) at Date.now() = now.  ok is FALSE where it returns null,
\* which is also what its catch block returns for everything thrown inside.
verifyCode(code, now) ==
  LET Parsed(payload) ==
        IF ~payload.ok THEN VerifyNull
        ELSE IF IsNullish(payload.val) THEN VerifyNull
        ELSE IF Expired(payload.val, now) THEN VerifyNull
        ELSE [ok |-> TRUE, payload |-> payload.val]
      Decoded(payloadJson) ==
        IF ~payloadJson.ok THEN VerifyNull ELSE Parsed(JsonParse(payloadJson.v))
      Checked(payloadBase64, signatureBytes) ==
        IF ~signatureBytes.ok THEN VerifyNull
        ELSE IF ~HmacVerify(SIGNING_SECRET, signatureBytes.v, payloadBase64) THEN VerifyNull
        ELSE Decoded(atob(payloadBase64))
      Split(parts) ==
        IF ~Truthy(parts.first) \/ ~Truthy(parts.second) THEN VerifyNull
        ELSE Checked(base64UrlToBase64(parts.first.v),
                     atob(base64UrlToBase64(parts.second.v)))
  IN Split(SplitDot(code))

(***************************************************************************)
(* Buffer (UTF-8 and base64url), as authorize and callback use it for the  *)
(* OAuthFlowState blob.  Model strings stay below U+0800, so a character   *)
(* takes one or two bytes.                                                 *)
(***************************************************************************)
Utf8Char(c) == IF c < 128 THEN <<c>> ELSE <<192 + (c \div 64), 128 + (c % 64)>>

RECURSIVE Utf8Range(_, _, _)
Utf8Range(s, lo, hi) ==
  IF lo > hi THEN <<>>
  ELSE IF lo = hi THEN Utf8Char(s[lo])
  ELSE LET mid == (lo + hi) \div 2
       IN Utf8Range(s, lo, mid) \o Utf8Range(s, mid + 1, hi)

\* Buffer.from(s) / TextEncoder.encode(s)
Utf8Encode(s) == Utf8Range(s, 1, Len(s))

IsContinuation(b) == b >= 128 /\ b < 192
IsLead2(b) == b >= 192 /\ b < 224

\* the character that starts at byte p: none for a continuation byte that a
\* two-byte lead consumed, U+FFFD for a byte that fits no sequence
Utf8At(bs, p) ==
  LET b == bs[p]
  IN IF b < 128 THEN <<b>>
     ELSE IF IsContinuation(b)
          THEN (IF p > 1 /\ IsLead2(bs[p - 1]) THEN <<>> ELSE <<65533>>)
     ELSE IF IsLead2(b) /\ p < Len(bs) /\ IsContinuation(bs[p + 1])
          THEN <<(b - 192) * 64 + (bs[p + 1] - 128)>>
     ELSE <<65533>>

RECURSIVE Utf8DecodeRange(_, _, _)
Utf8DecodeRange(bs, lo, hi) ==
  IF lo > hi THEN <<>>
  ELSE IF lo = hi THEN Utf8At(bs, lo)
  ELSE LET mid == (lo + hi) \div 2
       IN Utf8DecodeRange(bs, lo, mid) \o Utf8DecodeRange(bs, mid + 1, hi)

\* buffer.toString()
Utf8Decode(bs) == Utf8DecodeRange(bs, 1, Len(bs))

\* buffer.toString('base64url')
BufferToBase64Url(bs) == base64ToBase64Url(B64Encode(bs))

\* Buffer.from(s, 'base64url'): never throws; both alphabets are accepted,
\* decoding stops at the first '=', characters outside the alphabets are
\* skipped and the bits left over are dropped
BufferFromBase64Url(s) ==
  LET Whole(d) == atob(IF Len(d) % 4 = 1 THEN SubSeq(d, 1, Len(d) - 1) ELSE d).v
      UpTo(std, pads) ==
        Whole(SelectSeq(SubSeq(std, 1, IF pads = {} THEN Len(std) ELSE MinOf(pads) - 1),
                        LAMBDA c : B64Val(c) >= 0))
      Std(std) == UpTo(std, {i \in 1..Len(std) : std[i] = 61})
  IN Std(ReplaceAll(ReplaceAll(s, 45, 43), 95, 47))

(***************************************************************************)
(* PKCE verifier (token.ts).                                               *)
(***************************************************************************)
\* base64url, without padding, of SHA-256 of the verifier
S256Challenge(verifier) ==
  base64ToBase64Url(B64Encode(Sha256(Utf8Encode(verifier))))

\* a verifier under which everything matches
AnyVerifierMatches(verifier, challenge, method) == TRUE

\* a verifier that compares as 'plain' under every method it does not know
UnknownMethodAsPlain(verifier, challenge, method) ==
  IF method = Str(S_S256) THEN Str(S256Challenge(verifier)) = challenge
  ELSE Str(verifier) = challenge

\* verifyCodeChallenge(verifier, challenge, method): verifier is a string,
\* challenge and method are the values found in the code's payload
verifyCodeChallenge(verifier, challenge, method) ==
  IF method = Str(S_plain) THEN Str(verifier) = challenge
  ELSE IF method = Str(S_S256) THEN Str(S256Challenge(verifier)) = challenge
  ELSE FALSE

(***************************************************************************)
(* URLs.  A URL is a record [url, query]: url is the address without its   *)
(* query and query is a function from parameter names to string values, as *)
(* URLSearchParams presents it.                                            *)
(***************************************************************************)
NoQuery == [n \in {} |-> <<>>]

\* url.searchParams.get(name): null for a parameter that is not there
QueryGet(query, name) == IF name \in DOMAIN query THEN Str(query[name]) ELSE Null

\* url.searchParams.set(name, value)
QuerySet(query, name, value) ==
  [n \in DOMAIN query \cup {name} |-> IF n = name THEN value ELSE query[n]]

\* String(x), as the URL API applies it to its arguments
ToStringJS(x) ==
  IF x.t = "str" THEN x.v
  ELSE IF x.t = "num" THEN Digits(x.v[1])
  ELSE IF x.t = "null" THEN S_null
  ELSE S_undefined

IsAlpha(c) == (c >= 65 /\ c <= 90) \/ (c >= 97 /\ c <= 122)

\* new URL(s) succeeds: s starts with a scheme and ':' (the model's addresses
\* use no special scheme, for which a host would be needed as well)
IsAbsoluteUrl(s) ==
  \E k \in 2..Len(s) :
    /\ s[k] = 58
    /\ IsAlpha(s[1])
    /\ \A j \in 2..(k - 1) : IsAlpha(s[j]) \/ IsDigit(s[j]) \/ s[j] \in {43, 45, 46}

NoUrl == [url |-> <<>>, query |-> NoQuery]

(***************************************************************************)
(* GET /oauth/authorize (authorize.ts).                                    *)
(***************************************************************************)
\* the OAuthFlowState object, in the order the source writes its members
OAuthState(redirectUri, state, codeChallenge, codeChallengeMethod, scope) ==
  Obj(<< <<S_client_redirect_uri, redirectUri>>,
         <<S_client_state, state>>,
         <<S_code_challenge, codeChallenge>>,
         <<S_code_challenge_method, codeChallengeMethod>>,
         <<S_scope, scope>> >>)

\* Buffer.from(JSON.stringify(oauthState)).toString('base64url')
EncodeState(oauthState) == BufferToBase64Url(Utf8Encode(JsonStringify(oauthState)))

\* the callback URL of this server, carrying the blob
CallbackUrl(encodedState) ==
  [url |-> "MCP_SERVER_URL/oauth/callback",
   query |-> QuerySet(NoQuery, "mcp_state", encodedState)]

\* an authorize handler that asks for redirect_uri only
StateNotRequired(query) ==
  IF ~Truthy(QueryGet(query, "redirect_uri"))
  THEN [status |-> 400, error |-> "invalid_request",
        location |-> "", provider |-> "", redirect_to |-> NoUrl]
  ELSE [status |-> 302, error |-> "",
        location |-> "SUPABASE_URL/auth/v1/authorize", provider |-> "google",
        redirect_to |->
          CallbackUrl(EncodeState(OAuthState(QueryGet(query, "redirect_uri"),
                                             QueryGet(query, "state"),
                                             Null, Null, Null)))]

\* GET(request) of authorize.ts; on success the Location is the upstream
\* authorization endpoint, whose redirect_to parameter is the callback URL
AuthorizeGET(query) ==
  LET redirectUri == QueryGet(query, "redirect_uri")
      state == QueryGet(query, "state")
      oauthState == OAuthState(redirectUri, state,
                               QueryGet(query, "code_challenge"),
                               QueryGet(query, "code_challenge_method"),
                               QueryGet(query, "scope"))
  IN IF ~Truthy(redirectUri) \/ ~Truthy(state)
     THEN [status |-> 400, error |-> "invalid_request",
           location |-> "", provider |-> "", redirect_to |-> NoUrl]
     ELSE [status |-> 302, error |-> "",
           location |-> "SUPABASE_URL/auth/v1/authorize", provider |-> "google",
           redirect_to |-> CallbackUrl(EncodeState(oauthState))]

\* a redirect that hands the access token to the client next to the code
TokensOnRedirect(accessToken, refreshToken, oauthState, now) ==
  LET Leak(gen) ==
        [threw |-> FALSE, minted |-> gen.ok, code |-> gen.code, data |-> gen.data,
         location |->
           [url |-> ToStringJS(Get(oauthState, S_client_redirect_uri)),
            query |-> QuerySet(QuerySet(NoQuery, "code", gen.code),
                               "access_token", accessToken.v)]]
  IN Leak(generateCode(CodePayload(accessToken, refreshToken, Null, Null), now))

(***************************************************************************)
(* GET /oauth/callback (callback.ts).                                      *)
(***************************************************************************)
\* handleTokens(accessToken, refreshToken, oauthState) at Date.now() = now.
\* threw: an exception leaves the function (a property read on null, the
\* rejection of generateCode, new URL of something that is no absolute URL).
\* data: what generateCode was given to sign, Null if it was not called.
handleTokens(accessToken, refreshToken, oauthState, now) ==
  LET none == [threw |-> TRUE, minted |-> FALSE, code |-> <<>>, data |-> Null,
               location |-> NoUrl]
      Minted(gen, target) ==
        IF ~gen.ok THEN [none EXCEPT !.data = gen.data]
        ELSE IF ~IsAbsoluteUrl(target)
             THEN [none EXCEPT !.minted = TRUE, !.code = gen.code, !.data = gen.data]
        ELSE [threw |-> FALSE, minted |-> TRUE, code |-> gen.code, data |-> gen.data,
              location |->
                [url |-> target,
                 query |-> QuerySet(QuerySet(NoQuery, "code", gen.code), "state",
                                    ToStringJS(Get(oauthState, S_client_state)))]]
  IN IF IsNullish(oauthState) THEN none
     ELSE Minted(generateCode(
                   CodePayload(accessToken, refreshToken,
                               Get(oauthState, S_code_challenge),
                               Get(oauthState, S_code_challenge_method)), now),
                 ToStringJS(Get(oauthState, S_client_redirect_uri)))

\* what the upstream token endpoint does with the server's one fetch
FetchOutcomes == {"ok", "ok_norefresh", "rejected", "network"}

(* "B", "S": the tokens the upstream provider returns for its own code *)
UP_ACCESS == <<66>>
UP_REFRESH == <<83>>

\* a handler that makes its upstream call once more when it failed
RetryOnFailure(status, kind, error, ht, fetches) ==
  [status |-> status, kind |-> kind, error |-> error,
   location |-> ht.location, minted |-> ht.minted, code |-> ht.code,
   data |-> ht.data,
   fetches |-> IF status = 500 /\ fetches = 1 THEN 2 ELSE fetches]

\* what GET of callback.ts answers, with the code handleTokens minted and
\* the number of calls made to the upstream provider
CallbackResponse(status, kind, error, ht, fetches) ==
  [status |-> status, kind |-> kind, error |-> error,
   location |-> ht.location, minted |-> ht.minted, code |-> ht.code,
   data |-> ht.data, fetches |-> fetches]

NoTokens ==
  [threw |-> FALSE, minted |-> FALSE, code |-> <<>>, data |-> Null, location |-> NoUrl]

\* GET(request) of callback.ts from the decoding of the state on, the part
\* that runs when the error check lets the request through; upstream is the
\* outcome of the fetch, if the handler comes to make it.  kind "uncaught":
\* the exception leaves GET.
CallbackDecode(query, upstream, now) ==
  LET accessToken == QueryGet(query, "access_token")
      refreshToken == QueryGet(query, "refresh_token")
      stateParam == QueryGet(query, "state")
      supabaseCode == QueryGet(query, "code")
      Direct(ht) ==
        IF ht.threw THEN CallbackResponse(500, "uncaught", "", ht, 0)
        ELSE CallbackResponse(302, "redirect", "", ht, 0)
      Exchanged(ht) ==
        IF ht.threw THEN CallbackResponse(500, "html_error", "", ht, 1)
        ELSE CallbackResponse(302, "redirect", "", ht, 1)
      Decoded(parsed) ==
        IF ~Truthy(stateParam) \/ ~parsed.ok
        THEN CallbackResponse(400, "json_error", "invalid_state", NoTokens, 0)
        ELSE IF Truthy(accessToken)
        THEN Direct(handleTokens(accessToken, OrElse(refreshToken, Str(<<>>)),
                                 parsed.val, now))
        ELSE IF Truthy(supabaseCode)
        THEN (IF upstream \in {"rejected", "network"}
              THEN CallbackResponse(500, "html_error", "", NoTokens, 1)
              ELSE Exchanged(handleTokens(
                               Str(UP_ACCESS),
                               IF upstream = "ok" THEN Str(UP_REFRESH) ELSE Str(<<>>),
                               parsed.val, now)))
        ELSE CallbackResponse(200, "html_extract", "", NoTokens, 0)
  IN Decoded(JsonParse(Utf8Decode(BufferFromBase64Url(stateParam.v))))

\* a handler that never looks at the error parameter
ErrorCheckSkipped(query, upstream, now) == CallbackDecode(query, upstream, now)

\* GET(request) of callback.ts: the error page when the upstream provider
\* reports an error, the rest of the handler otherwise
CallbackGET(query, upstream, now) ==
  IF Truthy(QueryGet(query, "error"))
  THEN CallbackResponse(400, "html_error", "", NoTokens, 0)
  ELSE CallbackDecode(query, upstream, now)

(***************************************************************************)
(* POST /oauth/token (token.ts).                                           *)
(***************************************************************************)
\* what the upstream token-refresh endpoint does with the server's one fetch
RefreshOutcomes == {"ok", "rejected", "network"}

TokenResponse(status, error, accessToken, refreshToken, expiresIn, verifyCalls, fetches) ==
  [status |-> status, error |-> error, cacheControl |-> "no-store",
   access_token |-> accessToken, refresh_token |-> refreshToken,
   token_type |-> IF status = 200 THEN "Bearer" ELSE "",
   expires_in |-> expiresIn,
   verifyCalls |-> verifyCalls, fetches |-> fetches]

\* an errorResponse that names every error invalid_request
AlwaysInvalidRequest(error, verifyCalls, fetches) ==
  TokenResponse(400, "invalid_request", Undef, Undef, 0, verifyCalls, fetches)

\* errorResponse(error, description)
errorResponse(error, verifyCalls, fetches) ==
  TokenResponse(400, error, Undef, Undef, 0, verifyCalls, fetches)

\* an exception leaves POST: request.json() rejected
TokenUncaught ==
  [TokenResponse(500, "", Undef, Undef, 0, 0, 0) EXCEPT !.cacheControl = ""]

\* POST(request) of token.ts at Date.now() = now.  contentType is "form",
\* "json" or "other"; bodyOk says whether a JSON body parses; params are the
\* body's parameters; upstream is the outcome of the fetch, if it is made.
TokenPOST(contentType, bodyOk, params, upstream, now) ==
  LET grantType == QueryGet(params, "grant_type")
      code == QueryGet(params, "code")
      codeVerifier == QueryGet(params, "code_verifier")
      refreshToken == QueryGet(params, "refresh_token")
      Pkce(codeData, codeChallenge) ==
        IF Truthy(codeChallenge) /\ ~Truthy(codeVerifier)
        THEN errorResponse("invalid_request", 1, 0)
        ELSE IF Truthy(codeChallenge)
                /\ ~verifyCodeChallenge(
                      codeVerifier.v, codeChallenge,
                      OrElse(Get(codeData.payload, S_codeChallengeMethod), Str(S_S256)))
        THEN errorResponse("invalid_grant", 1, 0)
        ELSE TokenResponse(200, "", Get(codeData.payload, S_accessToken),
                           Get(codeData.payload, S_refreshToken), 3600, 1, 0)
      Verified(codeData) ==
        IF ~codeData.ok THEN errorResponse("invalid_grant", 1, 0)
        ELSE Pkce(codeData, Get(codeData.payload, S_codeChallenge))
  IN IF contentType = "other" THEN errorResponse("invalid_request", 0, 0)
     ELSE IF contentType = "json" /\ ~bodyOk THEN TokenUncaught
     ELSE IF grantType = Str(S_authorization_code)
     THEN (IF ~Truthy(code) THEN errorResponse("invalid_request", 0, 0)
           ELSE Verified(verifyCode(code.v, now)))
     ELSE IF grantType = Str(S_refresh_token)
     THEN (IF ~Truthy(refreshToken) THEN errorResponse("invalid_request", 0, 0)
           ELSE IF upstream = "network" THEN errorResponse("server_error", 0, 1)
           ELSE IF upstream = "rejected" THEN errorResponse("invalid_grant", 0, 1)
           ELSE TokenResponse(200, "", Str(UP_ACCESS), Str(UP_REFRESH), 3600, 0, 1))
     ELSE errorResponse("unsupported_grant_type", 0, 0)

(***************************************************************************)
(* The environment: the strings clients, browsers and the upstream         *)
(* provider send.                                                          *)
(***************************************************************************)
(* "a:/c", an absolute URL, and "c", which is none *)
R_OK == <<97, 58, 47, 99>>
R_REL == <<99>>
(* "s", the client's state *)
CLIENT_STATE == <<115>>
(* "v", the client's code verifier, and "w", another one *)
V_GOOD == <<118>>
V_BAD == <<119>>
(* "A", "R": upstream tokens that reach the callback as query parameters *)
Q_ACCESS == <<65>>
Q_REFRESH == <<82>>
(* "u": the upstream provider's own authorization code *)
UP_CODE == <<117>>
(* "S512": a method that is neither S256 nor plain *)
S_S512 == <<83, 53, 49, 50>>
(* a challenge with a character outside Latin-1 (U+03C0) *)
CH_PI == <<960>>
(* a challenge whose base64 holds a '+' ("~~~") *)
CH_TILDE == <<126, 126, 126>>

\* code_challenge and code_challenge_method as a client may send them
PkceCases ==
  { <<Null, Null>>,
    <<Str(S256Challenge(V_GOOD)), Str(S_S256)>>,
    <<Str(S256Challenge(V_GOOD)), Null>>,
    <<Str(S256Challenge(V_GOOD)), Str(<<>>)>>,
    <<Str(V_GOOD), Str(S_plain)>>,
    <<Str(V_GOOD), Str(S_S512)>>,
    <<Str(CH_TILDE), Str(S_plain)>>,
    <<Str(CH_PI), Str(S_plain)>> }

\* a query with the parameter added unless the value is null
WithParam(query, name, value) ==
  IF value.t = "str" THEN QuerySet(query, name, value.v) ELSE query

AuthorizeQuery(redirectUri, state, pk) ==
  WithParam(WithParam(WithParam(WithParam(NoQuery,
    "redirect_uri", redirectUri), "state", state),
    "code_challenge", pk[1]), "code_challenge_method", pk[2])

AuthorizeQueries ==
  {AuthorizeQuery(Str(R_OK), Str(CLIENT_STATE), pk) : pk \in PkceCases}
  \cup {AuthorizeQuery(r, Str(CLIENT_STATE), <<Null, Null>>) : r \in {Null, Str(<<>>), Str(R_REL)}}
  \cup {AuthorizeQuery(Str(R_OK), st, <<Null, Null>>) : st \in {Null, Str(<<>>)}}

\* what the upstream provider, or whoever sends the request, adds to the
\* callback URL, with the outcome of the fetch where the handler makes one
CallbackAdditions ==
  {[add |-> QuerySet(QuerySet(NoQuery, "access_token", Q_ACCESS), "refresh_token", Q_REFRESH),
    upstream |-> "none"],
   [add |-> QuerySet(NoQuery, "access_token", Q_ACCESS), upstream |-> "none"],
   [add |-> NoQuery, upstream |-> "none"],
   [add |-> QuerySet(NoQuery, "error", <<101>>), upstream |-> "none"],
   [add |-> QuerySet(QuerySet(QuerySet(NoQuery, "error", <<101>>),
                              "access_token", Q_ACCESS), "code", UP_CODE),
    upstream |-> "none"],
   [add |-> QuerySet(QuerySet(NoQuery, "error", <<>>), "access_token", Q_ACCESS),
    upstream |-> "none"],
   [add |-> QuerySet(QuerySet(NoQuery, "error", <<101>>), "code", UP_CODE),
    upstream |-> "ok"]}
  \cup {[add |-> QuerySet(NoQuery, "code", UP_CODE), upstream |-> o] : o \in FetchOutcomes}

\* state blobs that decode to a full OAuthFlowState
FlowStateBlobs ==
  {EncodeState(OAuthState(Str(R_OK), Str(CLIENT_STATE), pk[1], pk[2], Null)) : pk \in PkceCases}

\* state blobs whose JSON lacks a member, or is no object, and strings that
\* are no encoding of JSON at all ("!!", "QQ")
BadBlobs ==
  {BufferToBase64Url(Utf8Encode(JsonStringify(x))) :
     x \in {Obj(<< <<S_client_state, Str(CLIENT_STATE)>> >>),
            Obj(<< <<S_client_redirect_uri, Str(R_OK)>> >>),
            Obj(<<>>), Null, Num(1)}}
  \cup {<<33, 33>>, <<81, 81>>}

\* the query a sender builds around a blob of its own choice
CraftedQueries ==
  LET plain == EncodeState(OAuthState(Str(R_OK), Str(CLIENT_STATE), Null, Null, Null))
      rel == EncodeState(OAuthState(Str(R_REL), Str(CLIENT_STATE), Null, Null, Null))
      full == CHOOSE a \in CallbackAdditions : DOMAIN a.add = {"access_token", "refresh_token"}
      some == {a \in CallbackAdditions :
                 \/ a = full
                 \/ DOMAIN a.add = {}
                 \/ DOMAIN a.add = {"code"} /\ a.upstream = "ok"}
  IN {[query |-> QuerySet(a.add, "state", plain), upstream |-> a.upstream] : a \in CallbackAdditions}
     \cup {[query |-> QuerySet(full.add, "state", b), upstream |-> "none"] : b \in FlowStateBlobs}
     \cup {[query |-> QuerySet(a.add, "state", b), upstream |-> a.upstream] :
             a \in some, b \in BadBlobs \cup {rel}}
     \cup {[query |-> a.add, upstream |-> a.upstream] : a \in some}

(***************************************************************************)
(* Codes as a client or an attacker presents them.  The attacker holds its *)
(* own key and every code that was issued, not the signing secret.         *)
(***************************************************************************)
(* "aK" *)
ATTACKER_KEY == <<97, 75>>
(* "Z", the access token an attacker would like to be given *)
FORGED_ACCESS == <<90>>

PayloadHalf(code) == SplitDot(code).first.v
SignatureHalf(code) == SplitDot(code).second.v

\* the payload an attacker writes, as base64
ForgedBase64(now) ==
  B64Encode(JsonStringify(
    Obj(CodePayload(Str(FORGED_ACCESS), Str(<<>>), Undef, Undef).v
        \o << <<S_createdAt, Num(now)>> >>)))

\* a forged payload signed with the attacker's key
ForgedCode(now) ==
  LET Signed(payloadBase64) ==
        base64ToBase64Url(payloadBase64) \o <<46>>
        \o base64ToBase64Url(B64Encode(HmacSha256(ATTACKER_KEY, payloadBase64)))
  IN Signed(ForgedBase64(now))

\* c with bit b of its i-th character flipped
FlipBit(code, i, b) ==
  LET w == 2 ^ b
      c == code[i]
  IN [code EXCEPT ![i] = IF (c \div w) % 2 = 1 THEN c - w ELSE c + w]

\* the positions of the signature half in the code
SignaturePositions(code) ==
  {i \in 1..Len(code) : i > Len(PayloadHalf(code)) + 1}

\* what is made of an issued code before it is presented
Tamperings == {"intact", "padded", "splice", "truncated", "nosig", "nodot", "suffix"}

Tampered(code, kind, now) ==
  LET With(p, g) ==
     IF kind = "intact" THEN code
     ELSE IF kind = "padded" THEN base64UrlToBase64(p) \o <<46>> \o g
     ELSE IF kind = "splice" THEN base64ToBase64Url(ForgedBase64(now)) \o <<46>> \o g
     ELSE IF kind = "truncated" THEN p \o <<46>> \o SubSeq(g, 1, Len(g) - 1)
     ELSE IF kind = "nosig" THEN p \o <<46>>
     ELSE IF kind = "nodot" THEN p
     ELSE code \o <<46, 120>>
  IN With(PayloadHalf(code), SignatureHalf(code))

(***************************************************************************)
(* The MCP endpoint (api/mcp/index.ts): sessions, transports and what a    *)
(* transport of the SDK (WebStandardStreamableHTTPServerTransport, with    *)
(* session management and JSON responses) does with a request.             *)
(*                                                                         *)
(* A session id is a record [src, n]: src says whether the client chose it *)
(* or crypto.randomUUID() made it.  A JSON-RPC message is [method, id], id *)
(* being "" for a notification.                                            *)
(***************************************************************************)
\* request.headers.get('Mcp-Session-Id') when the header is absent
NoSid == [src |-> "none", n |-> 0]
\* a session id a client carries that the registry does not know
CLIENT_SID == [src |-> "client", n |-> 123]
\* crypto.randomUUID(), the n-th value it returns
randomUUID(n) == [src |-> "uuid", n |-> n]

Msg(method, id) == [method |-> method, id |-> id, tool |-> "", arg |-> ""]

\* a tools/call message: the tool's name and its one argument
ToolCall(tool, arg, id) == [method |-> "tools/call", id |-> id, tool |-> tool, arg |-> arg]

\* the POST requests a client sends: bearer credential ("" for none),
\* Mcp-Session-Id, Accept ("both": application/json and text/event-stream,
\* "json": application/json alone), whether the body is JSON, and the body.
\* fault says that the transport call made for the request rejects.
McpRequest(auth, sid, accept, bodyOk, msg) ==
  [verb |-> "POST", auth |-> auth, sid |-> sid, accept |-> accept,
   bodyOk |-> bodyOk, msg |-> msg, fault |-> FALSE]

\* a GET and a DELETE: they have no body
GetRequest(auth, sid) ==
  [McpRequest(auth, sid, "both", TRUE, Msg("", "")) EXCEPT !.verb = "GET"]

DeleteRequest(auth, sid) ==
  [McpRequest(auth, sid, "both", TRUE, Msg("", "")) EXCEPT !.verb = "DELETE"]

\* the request, when the transport call made for it rejects
Faulting(req) == [req EXCEPT !.fault = TRUE]

\* a response: HTTP status, the error it reports if any, and for a JSON-RPC
\* result the id and the method of the request it answers
McpResponse(status, error, id, result) ==
  [status |-> status, error |-> error, id |-> id, result |-> result]

NoRequest == McpRequest("", NoSid, "", FALSE, Msg("", ""))
NoResponse == McpResponse(0, "", "", "")

\* a session id the server always makes itself, as the route did before it
\* reconciled lost sessions
FreshSessionId(sessionId, n) == randomUUID(n)

\* const useSessionId = sessionId || crypto.randomUUID(), the n-th value
UseSessionId(sessionId, n) == IF sessionId # NoSid THEN sessionId ELSE randomUUID(n)

\* new WebStandardStreamableHTTPServerTransport({sessionIdGenerator: () =>
\* useSessionId, ...}) with the server createMCPServer(authToken) connected
\* to it, made by the handler of POST number creator
NewTransport(useSessionId, creator, authToken) ==
  [generator |-> useSessionId, sessionId |-> NoSid, initialized |-> FALSE,
   closed |-> FALSE, creator |-> creator, auth |-> authToken, regNo |-> 0,
   phoneId |-> "", log |-> <<>>]

\* the phones the upstream API lists for the credential, in its order
PHONES == <<"P1", "P2">>

\* TapKitClient.getPhoneId(): the selected phone, or the first of the list
\* where none is selected ("" stands for null)
getPhoneId(phoneId) == IF phoneId # "" THEN phoneId ELSE PHONES[1]

\* TapKitClient.setPhoneId(phoneId), which select_phone calls: the client's
\* phoneId afterwards.  The class in tapkit-client.ts declares no such
\* method; it is taken to store its argument in the field getPhoneId reads.
setPhoneId(phoneId, phone_id) == phone_id

\* executeTool(client, toolName, args) for select_phone and for a tool that
\* acts on a phone: the client's phoneId afterwards, and the phone the
\* upstream call was made for ("" where none was)
executeTool(phoneId, toolName, arg) ==
  IF toolName = "select_phone"
  THEN [phoneId |-> IF \E i \in DOMAIN PHONES : PHONES[i] = arg
                    THEN setPhoneId(phoneId, arg) ELSE phoneId,
        phone |-> ""]
  ELSE [phoneId |-> getPhoneId(phoneId), phone |-> getPhoneId(phoneId)]

\* transport.handleRequest(req), called by handler number by, when regNo - 1
\* sessions were initialised before: the transport after the call, the
\* response, and whether onsessioninitialized was called.  The log keeps the
\* requests the transport received.  A GET opens the event stream of the
\* session.  After close() the server behind the transport has no transport
\* to send on: a notification is still acknowledged, the result of a request
\* is never sent.
TransportHandle(t, by, req, regNo) ==
  LET Logged(status, phone) ==
        Append(t.log, [by |-> by, method |-> req.msg.method, id |-> req.msg.id,
                       sid |-> req.sid, status |-> status, tool |-> req.msg.tool,
                       arg |-> req.msg.arg, phone |-> phone])
      Received(status) == Logged(status, "")
      Called(tool) ==
        [t |-> [t EXCEPT !.phoneId = tool.phoneId, !.log = Logged(200, tool.phone)],
         resp |-> McpResponse(200, "", req.msg.id, req.msg.method),
         registered |-> FALSE]
      Refused(status, error) ==
        [t |-> [t EXCEPT !.log = Received(status)],
         resp |-> McpResponse(status, error, "", ""),
         registered |-> FALSE]
  IN IF req.accept # "both" THEN Refused(406, "not_acceptable")
     ELSE IF req.verb = "GET"
     THEN (IF ~t.initialized THEN Refused(400, "server_not_initialized")
           ELSE IF req.sid = NoSid THEN Refused(400, "session_id_required")
           ELSE IF req.sid # t.sessionId THEN Refused(404, "session_not_found")
           ELSE [t |-> [t EXCEPT !.log = Received(200)],
                 resp |-> McpResponse(200, "", "", "stream"),
                 registered |-> FALSE])
     ELSE IF ~req.bodyOk THEN Refused(400, "parse_error")
     ELSE IF req.msg.method = "initialize"
     THEN (IF t.initialized THEN Refused(400, "already_initialized")
           ELSE [t |-> [t EXCEPT !.initialized = TRUE, !.sessionId = t.generator,
                                 !.regNo = regNo, !.log = Received(200)],
                 resp |-> McpResponse(200, "", req.msg.id, req.msg.method),
                 registered |-> TRUE])
     ELSE IF ~t.initialized THEN Refused(400, "server_not_initialized")
     ELSE IF req.sid = NoSid THEN Refused(400, "session_id_required")
     ELSE IF req.sid # t.sessionId THEN Refused(404, "session_not_found")
     ELSE IF req.msg.id = ""
     THEN [t |-> [t EXCEPT !.log = Received(202)],
           resp |-> McpResponse(202, "", "", ""),
           registered |-> FALSE]
     ELSE IF t.closed THEN Refused(504, "no_response")
     ELSE IF req.msg.method = "tools/call"
     THEN Called(executeTool(t.phoneId, req.msg.tool, req.msg.arg))
     ELSE [t |-> [t EXCEPT !.log = Received(200)],
           resp |-> McpResponse(200, "", req.msg.id, req.msg.method),
           registered |-> FALSE]

\* a registry that keeps the old entry next to the new one
SessionsAdd(registry, id, t) == registry \cup {[id |-> id, t |-> t]}

\* sessions.set(id, {transport, server}) of a Map: the entry for the key is
\* replaced
SessionsSet(registry, id, t) ==
  {e \in registry : e.id # id} \cup {[id |-> id, t |-> t]}

\* the delay of the eviction timer: 30 * 60 * 1000
SESSION_TTL_MS == 1800000

\* a delete that leaves the entry where it is
SessionsKeep(registry, id) == registry

\* sessions.delete(id)
SessionsDelete(registry, id) == {e \in registry : e.id # id}

\* sessions.has(id)
SessionsHas(registry, id) == \E e \in registry : e.id = id

\* sessions.get(id).transport
SessionsGet(registry, id) == (CHOOSE e \in registry : e.id = id).t

\* a lookup that finds some session when the id is not in the registry
AnySession(registry, id) ==
  IF registry = {} THEN 0
  ELSE IF id # NoSid /\ SessionsHas(registry, id) THEN SessionsGet(registry, id)
  ELSE (CHOOSE e \in registry : TRUE).t

\* sessionId && sessions.has(sessionId), then sessions.get(sessionId): the
\* transport of the session, 0 when there is none
SessionOf(registry, id) ==
  IF id # NoSid /\ SessionsHas(registry, id) THEN SessionsGet(registry, id) ELSE 0

\* the synthetic initialize request the handler feeds to a new transport
SyntheticInit(useSessionId) ==
  McpRequest("", useSessionId, "both", TRUE, Msg("initialize", "synthetic-init"))

\* a second initialize in the place of the notification
InitializeAgain(useSessionId) == SyntheticInit(useSessionId)

\* the synthetic notifications/initialized
SyntheticInitialized(useSessionId) ==
  McpRequest("", useSessionId, "both", TRUE, Msg("notifications/initialized", ""))

\* the caller's request passed on as it came
RequestUnmodified(req, useSessionId) == req

\* the caller's request with the session id attached and text/event-stream
\* added to an Accept header that lacks it
ModifiedRequest(req, useSessionId) ==
  [req EXCEPT !.sid = useSessionId, !.accept = "both"]

(***************************************************************************)
(* State.                                                                  *)
(***************************************************************************)
VARIABLES
  now,        \* Date.now(), in milliseconds
  ticks,      \* how many times the clock advanced
  issued,     \* the code generateCode returned last, if any: {[code, data]}
  last,       \* the exchange being looked at: [op, req, resp]
  sessions,   \* the registry of api/mcp/index.ts: {[id, t]}, t a transport
  transports, \* the transports created so far, in the order of creation
  posts,      \* the requests to the MCP endpoint, each with its position
  timers      \* the setTimeout callbacks: {[id, t, regAt, at, fired]}

\* the state of the OAuth endpoints and the state of the MCP endpoint
oauthVars == <<now, ticks, issued, last>>
mcpVars == <<sessions, transports, posts, timers>>

vars == <<now, ticks, issued, last, sessions, transports, posts, timers>>

Idle == [op |-> "idle", req |-> <<>>, resp |-> <<>>]

\* the steps by which the clock advances
ClockSteps == {1, CODE_TTL_MS - 1, CODE_TTL_MS}

Init ==
  /\ now = 0
  /\ ticks = 0
  /\ issued = {}
  /\ last = Idle
  /\ sessions = {}
  /\ transports = <<>>
  /\ posts = [h \in 1..MaxRequests |-> [pc |-> "idle", req |-> NoRequest, t |-> 0,
                                        resp |-> NoResponse]]
  /\ timers = {}

Tick ==
  /\ last = Idle
  /\ ticks < MaxTicks
  /\ \E d \in ClockSteps : now' = now + d
  /\ ticks' = ticks + 1
  /\ UNCHANGED <<issued, last>>
  /\ UNCHANGED mcpVars

\* the observer turns to the next exchange
Reset ==
  /\ last # Idle
  /\ last' = Idle
  /\ UNCHANGED <<now, ticks, issued>>
  /\ UNCHANGED mcpVars

\* a client sends GET /oauth/authorize
Authorize ==
  /\ last = Idle
  /\ ticks <= MaxFlowTicks
  /\ \E q \in AuthorizeQueries :
       last' = [op |-> "authorize", req |-> [query |-> q], resp |-> AuthorizeGET(q)]
  /\ UNCHANGED <<now, ticks, issued>>
  /\ UNCHANGED mcpVars

\* the callback handler runs on a request; a code it mints is the one in flight
Callback(query, upstream, honest) ==
  /\ ticks <= MaxFlowTicks
  /\ \E resp \in {CallbackGET(query, upstream, now)} :
       /\ last' = [op |-> "callback",
                   req |-> [query |-> query, upstream |-> upstream, honest |-> honest],
                   resp |-> resp]
       /\ issued' = IF resp.minted
                    THEN {[code |-> resp.code, data |-> resp.data]}
                    ELSE issued
  /\ UNCHANGED <<now, ticks>>
  /\ UNCHANGED mcpVars

\* the upstream provider returns the browser to the redirect_to URL that
\* authorize gave it, with its tokens, its code or its error added
CallbackReturn ==
  /\ last.op = "authorize"
  /\ last.resp.status = 302
  /\ \E a \in CallbackAdditions :
       Callback(a.add @@ last.resp.redirect_to.query, a.upstream, TRUE)

\* somebody sends a callback request of their own making
CallbackCrafted ==
  /\ last = Idle
  /\ \E r \in CraftedQueries : Callback(r.query, r.upstream, FALSE)

\* the codes that can be presented: issued ones, tampered with or not, and
\* the attacker's own
Presented ==
  {[code |-> Tampered(c.code, k, now), kind |-> k, from |-> c.code] :
     c \in issued, k \in Tamperings}
  \cup {[code |-> ForgedCode(now), kind |-> "forged", from |-> <<>>]}

\* verifyCode is applied to a presented code
VerifyCode ==
  /\ last = Idle
  /\ \E p \in Presented :
       last' = [op |-> "verifyCode", req |-> p, resp |-> verifyCode(p.code, now)]
  /\ UNCHANGED <<now, ticks, issued>>
  /\ UNCHANGED mcpVars

\* verifyCode is applied to a fresh code with one bit of its signature half flipped
VerifyFlipped ==
  /\ last = Idle
  /\ \E c \in issued : \E i \in SignaturePositions(c.code) : \E b \in 0..7 :
       /\ Get(c.data, S_createdAt) = Num(now)
       /\ \E flipped \in {FlipBit(c.code, i, b)} :
            last' = [op |-> "verifyCode",
                     req |-> [code |-> flipped, kind |-> "bitflip", from |-> c.code],
                     resp |-> verifyCode(flipped, now)]
  /\ UNCHANGED <<now, ticks, issued>>
  /\ UNCHANGED mcpVars

TokenParams(grantType, code, verifier, refreshToken) ==
  WithParam(WithParam(WithParam(WithParam(NoQuery,
    "grant_type", grantType), "code", code),
    "code_verifier", verifier), "refresh_token", refreshToken)

Verifiers == {Null, Str(<<>>), Str(V_GOOD), Str(V_BAD)}

\* the token requests that redeem a presented code
RedeemRequests ==
  {[contentType |-> "form", bodyOk |-> TRUE, upstream |-> "none",
    params |-> TokenParams(Str(S_authorization_code), Str(p.code), v, Null),
    kind |-> p.kind, from |-> p.from] :
     p \in {x \in Presented : x.kind \in {"intact", "padded", "splice", "forged"}},
     v \in Verifiers}

\* the other token requests
OtherRequests ==
  {[contentType |-> ct, bodyOk |-> TRUE, upstream |-> "none",
    params |-> TokenParams(g, Null, Null, Null), kind |-> "none", from |-> <<>>] :
     ct \in {"form", "json", "other"},
     g \in {Null, Str(<<102>>), Str(S_authorization_code), Str(S_refresh_token)}}
  \cup {[contentType |-> "json", bodyOk |-> FALSE, upstream |-> "none",
         params |-> NoQuery, kind |-> "none", from |-> <<>>]}
  \cup {[contentType |-> "form", bodyOk |-> TRUE, upstream |-> o,
         params |-> TokenParams(Str(S_refresh_token), Null, Null, Str(Q_REFRESH)),
         kind |-> "none", from |-> <<>>] : o \in RefreshOutcomes}

\* a client sends POST /oauth/token
Token ==
  /\ last = Idle
  /\ \E r \in RedeemRequests \cup OtherRequests :
       last' = [op |-> "token", req |-> r,
                resp |-> TokenPOST(r.contentType, r.bodyOk, r.params, r.upstream, now)]
  /\ UNCHANGED <<now, ticks, issued>>
  /\ UNCHANGED mcpVars

Next ==
  \/ Tick
  \/ Reset
  \/ Authorize
  \/ CallbackReturn
  \/ CallbackCrafted
  \/ VerifyCode
  \/ VerifyFlipped
  \/ Token

Spec == Init /\ [][Next]_vars

(***************************************************************************)
(* The MCP endpoint: POST, GET and DELETE of api/mcp/index.ts, and the     *)
(* eviction timers.  A handler runs from one await to the next in one      *)
(* step; the handlers of different requests interleave at the awaits.      *)
(***************************************************************************)
\* a request that has not arrived yet
IdlePost == [pc |-> "idle", req |-> NoRequest, t |-> 0, resp |-> NoResponse]

\* the JSON-RPC id the client gives the request of POST number h
RequestId(h) == <<"r1", "r2", "r3", "r4">>[h]

\* the session ids a client can carry: none, one the registry never saw, and
\* those this server assigned
ClientSids ==
  {NoSid, CLIENT_SID}
  \cup {transports[i].sessionId : i \in {j \in DOMAIN transports : transports[j].initialized}}

\* the session ids of the registry
RegisteredSids == {e.id : e \in sessions}

\* the messages a client sends
ClientMessages(h) ==
  {Msg("initialize", RequestId(h)),
   Msg("notifications/initialized", ""),
   Msg("tools/list", RequestId(h))}

\* the requests POST number h can be
PostRequests(h) ==
  {McpRequest("tok", sid, "both", TRUE, m) : sid \in ClientSids, m \in ClientMessages(h)}
  \cup {McpRequest("tok", sid, "json", TRUE, Msg("tools/list", RequestId(h))) :
          sid \in ClientSids \ {NoSid}}
  \cup {McpRequest("tok2", sid, "both", TRUE, Msg("tools/list", RequestId(h))) :
          sid \in ClientSids \ {NoSid}}
  \cup {Faulting(McpRequest("tok", sid, "both", TRUE, Msg("tools/list", RequestId(h)))) :
          sid \in RegisteredSids \cup {CLIENT_SID}}
  \cup {McpRequest("tok", sid, "both", FALSE, Msg("", "")) : sid \in {NoSid, CLIENT_SID}}
  \cup {McpRequest("", CLIENT_SID, "both", TRUE, Msg("tools/list", RequestId(h)))}

\* the GET requests and the DELETE requests a client sends
GetRequests ==
  {GetRequest(a, sid) : a \in {"", "tok"}, sid \in ClientSids}
  \cup {Faulting(GetRequest("tok", sid)) : sid \in RegisteredSids}

DeleteRequests ==
  {DeleteRequest(a, sid) : a \in {"", "tok"}, sid \in ClientSids}
  \cup {Faulting(DeleteRequest("tok", sid)) : sid \in RegisteredSids}

\* the requests being handled
InFlight == {g \in 1..MaxRequests : posts[g].pc \notin {"idle", "done"}}

\* the requests arrive in the order of their numbers, while fewer than
\* MaxInFlight are being handled
Arrives(h) ==
  /\ posts[h].pc = "idle"
  /\ Cardinality(InFlight) < MaxInFlight
  /\ \A g \in 1..(h - 1) : posts[g].pc # "idle"

\* what the platform answers when the promise a handler returned rejects
UncaughtRejection == McpResponse(500, "uncaught", "", "")

\* the tool calls a client sends as POST number h: with a session id, under
\* one credential; and the initialize that opens a session
ToolRequests(h) ==
  {McpRequest("tok", sid, "both", TRUE, m) :
     sid \in ClientSids \ {NoSid},
     m \in {ToolCall("select_phone", "P2", RequestId(h)),
            ToolCall("select_phone", "P9", RequestId(h)),
            ToolCall("tap", "", RequestId(h))}}
  \cup {McpRequest("tok", NoSid, "both", TRUE, Msg("initialize", RequestId(h)))}

\* POST up to its first await, for a request out of requests: the
\* credential check, the registry lookup
ReceiveOf(h, requests) ==
  /\ Arrives(h)
  /\ \E r \in requests :
       posts' = [posts EXCEPT ![h] =
         IF r.auth = ""
         THEN [pc |-> "done", req |-> r, t |-> 0,
               resp |-> McpResponse(401, "auth_required", "", "")]
         ELSE IF r.sid # NoSid /\ SessionsHas(sessions, r.sid)
         THEN [pc |-> "routed", req |-> r, t |-> SessionsGet(sessions, r.sid),
               resp |-> NoResponse]
         ELSE [pc |-> "parsing", req |-> r, t |-> 0, resp |-> NoResponse]]
  /\ UNCHANGED <<sessions, transports, timers>>
  /\ UNCHANGED oauthVars

\* a POST of the protocol traffic
Receive(h) == ReceiveOf(h, PostRequests(h))

\* a POST that carries a tool call
ToolReceive(h) == ReceiveOf(h, ToolRequests(h))

\* a GET that goes on like a POST with an unknown session id
GetReconciles(r) == [pc |-> "parsing", req |-> r, t |-> 0, resp |-> NoResponse]

\* GET with no session id or an unknown one: 404 SESSION_NOT_FOUND
SessionNotFound(r) ==
  [pc |-> "done", req |-> r, t |-> 0,
   resp |-> McpResponse(404, "SESSION_NOT_FOUND", "", "")]

\* GET up to the call of the transport: the credential check, the lookup
GET(h) ==
  /\ Arrives(h)
  /\ \E r \in GetRequests :
       posts' = [posts EXCEPT ![h] =
         IF r.auth = ""
         THEN [pc |-> "done", req |-> r, t |-> 0,
               resp |-> McpResponse(401, "AUTH_REQUIRED", "", "")]
         ELSE IF r.sid = NoSid \/ ~SessionsHas(sessions, r.sid)
         THEN SessionNotFound(r)
         ELSE [pc |-> "routed", req |-> r, t |-> SessionsGet(sessions, r.sid),
               resp |-> NoResponse]]
  /\ UNCHANGED <<sessions, transports, timers>>
  /\ UNCHANGED oauthVars

\* DELETE up to its await: the lookup and the call of transport.close()
DELETE(h) ==
  /\ Arrives(h)
  /\ \E r \in DeleteRequests :
       IF SessionOf(sessions, r.sid) # 0
       THEN IF r.fault
            THEN /\ posts' = [posts EXCEPT ![h] =
                      [pc |-> "done", req |-> r, t |-> SessionOf(sessions, r.sid),
                       resp |-> UncaughtRejection]]
                 /\ UNCHANGED transports
            ELSE /\ posts' = [posts EXCEPT ![h] =
                      [pc |-> "closing", req |-> r, t |-> SessionOf(sessions, r.sid),
                       resp |-> NoResponse]]
                 /\ transports' = [transports EXCEPT
                      ![SessionOf(sessions, r.sid)].closed = TRUE]
       ELSE /\ posts' = [posts EXCEPT ![h] =
                 [pc |-> "done", req |-> r, t |-> 0,
                  resp |-> McpResponse(204, "", "", "")]]
            /\ UNCHANGED transports
  /\ UNCHANGED <<sessions, timers>>
  /\ UNCHANGED oauthVars

\* DELETE after the await: sessions.delete(sessionId) and the answer
Deleted(h) ==
  /\ posts[h].pc = "closing"
  /\ sessions' = SessionsDelete(sessions, posts[h].req.sid)
  /\ posts' = [posts EXCEPT ![h].pc = "done",
                            ![h].resp = McpResponse(204, "", "", "")]
  /\ UNCHANGED <<transports, timers>>
  /\ UNCHANGED oauthVars

\* a timer that every request to its session's transport sets back
SlidingTimers(pending, r, t, at) ==
  IF r.registered
  THEN pending \cup {[id |-> r.t.sessionId, t |-> t, regAt |-> at,
                      at |-> at + SESSION_TTL_MS, fired |-> FALSE]}
  ELSE {IF tm.t = t /\ ~tm.fired THEN [tm EXCEPT !.at = at + SESSION_TTL_MS] ELSE tm :
          tm \in pending}

\* the timers after transport number t handled a request at time at with
\* result r: onsessioninitialized schedules one, nothing else touches them
ScheduledTimers(pending, r, t, at) ==
  IF r.registered
  THEN pending \cup {[id |-> r.t.sessionId, t |-> t, regAt |-> at,
                      at |-> at + SESSION_TTL_MS, fired |-> FALSE]}
  ELSE pending

\* transport.handleRequest(req) on the handler's transport, with the
\* session-initialized callback where the transport calls it: the entry is
\* set and its timer is scheduled.  returned says whether the promise is the
\* one the handler returns, or one it awaits inside its try block
HandleRequest(h, req, pcAfter, returned) ==
  IF posts[h].req.fault
  THEN /\ posts' = [posts EXCEPT
            ![h].pc = "done",
            ![h].resp = IF returned /\ pcAfter = "done" THEN UncaughtRejection
                        ELSE McpResponse(500, "internal_error", "", "")]
       /\ UNCHANGED <<sessions, transports, timers>>
       /\ UNCHANGED oauthVars
  ELSE \E r \in {TransportHandle(
                   transports[posts[h].t], h, req,
                   1 + Cardinality({i \in DOMAIN transports : transports[i].initialized}))} :
         /\ transports' = [transports EXCEPT ![posts[h].t] = r.t]
         /\ sessions' = IF r.registered
                        THEN SessionsSet(sessions, r.t.sessionId, posts[h].t)
                        ELSE sessions
         /\ timers' = ScheduledTimers(timers, r, posts[h].t, now)
         /\ posts' = [posts EXCEPT ![h].pc = pcAfter,
                                   ![h].resp = IF returned THEN r.resp ELSE @]
         /\ UNCHANGED oauthVars

\* the request of a known session reaches the session's transport
Routed(h) ==
  /\ posts[h].pc = "routed"
  /\ HandleRequest(h, posts[h].req, "done", TRUE)

\* a handler that does not look at what clonedRequest.json() did
BodyAssumed(req) == TRUE

\* await clonedRequest.json() returns the body; it throws when the body is
\* not JSON
BodyParses(req) == req.bodyOk

\* a server whose connect enters the transport under its session id
ConnectRegisters(registry, id, t) == SessionsSet(registry, id, t)

\* await server.connect(transport) after the transport was constructed: the
\* transport is started, the registry is left as it is
ServerConnect(registry, id, t) == registry

\* the body has been read: the parse error, or a new transport and server
Parsed(h) ==
  /\ posts[h].pc = "parsing"
  /\ IF ~BodyParses(posts[h].req)
     THEN /\ posts' = [posts EXCEPT ![h].pc = "done",
                                    ![h].resp = McpResponse(400, "parse_error", "", "")]
          /\ UNCHANGED transports
     ELSE /\ transports' =
               Append(transports,
                      NewTransport(UseSessionId(posts[h].req.sid, Len(transports) + 1),
                                   h, posts[h].req.auth))
          /\ posts' = [posts EXCEPT
               ![h].t = Len(transports) + 1,
               ![h].pc = IF posts[h].req.msg.method # "initialize"
                         THEN "init" ELSE "direct"]
  /\ sessions' = IF ~BodyParses(posts[h].req) THEN sessions
                 ELSE ServerConnect(sessions,
                                    UseSessionId(posts[h].req.sid, Len(transports) + 1),
                                    Len(transports) + 1)
  /\ UNCHANGED timers
  /\ UNCHANGED oauthVars

\* await transport.handleRequest(initRequest)
SynthInit(h) ==
  /\ posts[h].pc = "init"
  /\ HandleRequest(h, SyntheticInit(transports[posts[h].t].generator), "notify", FALSE)

\* await transport.handleRequest(initializedNotification)
SynthInitialized(h) ==
  /\ posts[h].pc = "notify"
  /\ HandleRequest(h, SyntheticInitialized(transports[posts[h].t].generator),
                   "forward", FALSE)

\* return transport.handleRequest(modifiedRequest)
Forward(h) ==
  /\ posts[h].pc = "forward"
  /\ HandleRequest(h, ModifiedRequest(posts[h].req, transports[posts[h].t].generator),
                   "done", TRUE)

\* the request is initialize: return transport.handleRequest(request)
Direct(h) ==
  /\ posts[h].pc = "direct"
  /\ HandleRequest(h, posts[h].req, "done", TRUE)

\* the timers that are due at time at
Due(at) == {tm \in timers : ~tm.fired /\ tm.at <= at}

\* time passes, and the callbacks of the timers that come due run:
\* sessions.delete(newSessionId).  Nothing but the timers reads the clock,
\* so time is let pass only while a timer is pending.
Elapse ==
  /\ ticks < MaxTicks
  /\ \E tm \in timers : ~tm.fired
  /\ now' = now + (SESSION_TTL_MS \div 2)
  /\ ticks' = ticks + 1
  /\ sessions' = {e \in sessions : e.id \notin {tm.id : tm \in Due(now')}}
  /\ timers' = {IF tm \in Due(now') THEN [tm EXCEPT !.fired = TRUE] ELSE tm :
                  tm \in timers}
  /\ UNCHANGED <<transports, posts>>
  /\ UNCHANGED <<issued, last>>

McpNext ==
  \/ Elapse
  \/ \E h \in 1..MaxRequests :
       \/ Receive(h)
       \/ GET(h)
       \/ DELETE(h)
       \/ Deleted(h)
       \/ Routed(h)
       \/ Parsed(h)
       \/ SynthInit(h)
       \/ SynthInitialized(h)
       \/ Forward(h)
       \/ Direct(h)

McpSpec == Init /\ [][McpNext]_vars

\* the endpoint under tool calls: sessions are opened, lost to eviction and
\* rebuilt while a client selects a phone and acts on it
ToolNext ==
  \/ Elapse
  \/ \E h \in 1..MaxRequests :
       \/ ToolReceive(h)
       \/ Routed(h)
       \/ Parsed(h)
       \/ SynthInit(h)
       \/ SynthInitialized(h)
       \/ Forward(h)
       \/ Direct(h)

ToolSpec == Init /\ [][ToolNext]_vars


(***************************************************************************)
(* What the exchange in `last` is about.                                   *)
(***************************************************************************)
\* the fields generateCode signs
PayloadFields ==
  {S_accessToken, S_refreshToken, S_codeChallenge, S_codeChallengeMethod, S_createdAt}

\* two payloads agree on every field (a member that is undefined is a member
\* that is not there)
SamePayload(a, b) == \A f \in PayloadFields : Get(a, f) = Get(b, f)

\* the age of an issued code
Age(c) == now - Get(c.data, S_createdAt).v[1]

\* the issued code a presented code was made from
SourceOf(req) == {c \in issued : c.code = req.from}

\* the OAuthFlowState a callback request carries, as the handler decodes it
BlobOf(query) ==
  IF "state" \in DOMAIN query
  THEN JsonParse(Utf8Decode(BufferFromBase64Url(query["state"])))
  ELSE [ok |-> FALSE, val |-> Undef]

\* the callback request has tokens in hand: an access token on the URL, or an
\* upstream code that the upstream provider exchanges
TokensInHand(req) ==
  /\ "error" \notin DOMAIN req.query
  /\ \/ "access_token" \in DOMAIN req.query
     \/ "code" \in DOMAIN req.query /\ req.upstream \in {"ok", "ok_norefresh"}

\* the callback request carries upstream tokens or an upstream code
TokensOrCode(req) ==
  /\ "error" \notin DOMAIN req.query
  /\ \/ "access_token" \in DOMAIN req.query
     \/ "code" \in DOMAIN req.query

\* the token request redeems a code
IsRedeem(req) ==
  /\ req.contentType \in {"form", "json"}
  /\ req.bodyOk
  /\ QueryGet(req.params, "grant_type") = Str(S_authorization_code)
  /\ Truthy(QueryGet(req.params, "code"))

\* the method the token endpoint applies to a payload: the recorded one, S256
\* where none is recorded
MethodApplied(data) ==
  IF Get(data, S_codeChallengeMethod) \in {Null, Undef, Str(<<>>)}
  THEN Str(S_S256)
  ELSE Get(data, S_codeChallengeMethod)

\* the verifier v is the one the challenge was made from, under method m
PkceMatch(v, challenge, m) ==
  \/ m = Str(S_plain) /\ challenge = Str(v)
  \/ m = Str(S_S256) /\ challenge = Str(base64ToBase64Url(B64Encode(Sha256(Utf8Encode(v)))))

(***************************************************************************)
(* C1.  Round trip of the Code Codec.                                      *)
(***************************************************************************)
\* C1: whenever generateCode is given a payload P it returns a code, and
\* verifyCode of that code, inside the validity window, returns P with the
\* createdAt that generateCode added.
C1_RoundTrip ==
  /\ (last.op = "callback" /\ last.resp.data # Null)
       => /\ last.resp.minted
          /\ verifyCode(last.resp.code, now).ok
          /\ SamePayload(verifyCode(last.resp.code, now).payload, last.resp.data)
  /\ (last.op = "verifyCode" /\ last.req.kind = "intact")
       => \A c \in SourceOf(last.req) :
            Age(c) < CODE_TTL_MS => last.resp.ok /\ SamePayload(last.resp.payload, c.data)

(***************************************************************************)
(* C2.  Only payloads that generateCode signed are redeemed.               *)
(***************************************************************************)
\* the presented code carries a payload half that, brought to base64, is the
\* payload of no issued code
UnsignedPayload(code) ==
  \A c \in issued :
    base64UrlToBase64(PayloadHalf(code)) # base64UrlToBase64(PayloadHalf(c.code))

\* the presented code's payload half, as sent, is the payload half of no
\* issued code
ForeignPayloadHalf(code) == \A c \in issued : PayloadHalf(code) # PayloadHalf(c.code)

\* C2 (amended): for every code whose payload half, once base64UrlToBase64
\* has brought it to base64, differs from the base64 payload of every code
\* generateCode produced, verifyCode returns invalid and the token endpoint
\* answers invalid_grant, never 200.
C2_UnsignedPayloadRejected ==
  /\ (last.op = "verifyCode" /\ UnsignedPayload(last.req.code)) => ~last.resp.ok
  /\ (last.op = "token" /\ IsRedeem(last.req)
        /\ UnsignedPayload(QueryGet(last.req.params, "code").v))
       => last.resp.status = 400 /\ last.resp.error = "invalid_grant"

\* C2, witness: a payload the attacker wrote, signed with the attacker's key,
\* is presented at the token endpoint while a signed code exists, and is
\* answered invalid_grant.
C2_Witness ==
  /\ last.op = "token"
  /\ last.req.kind = "forged"
  /\ issued # {}
  /\ IsRedeem(last.req)
  /\ UnsignedPayload(QueryGet(last.req.params, "code").v)
  /\ last.resp.error = "invalid_grant"

\* C2, as stated: for every code whose payload half differs from every
\* payload half generateCode produced, verifyCode returns invalid and the
\* token endpoint answers invalid_grant.
C2_ForeignHalfRejected ==
  /\ (last.op = "verifyCode" /\ ForeignPayloadHalf(last.req.code)) => ~last.resp.ok
  /\ (last.op = "token" /\ IsRedeem(last.req)
        /\ ForeignPayloadHalf(QueryGet(last.req.params, "code").v))
       => last.resp.status = 400 /\ last.resp.error = "invalid_grant"

(***************************************************************************)
(* C3.  One flipped bit in the signature half.                             *)
(***************************************************************************)
\* C3: a code that generateCode produced, with any single bit of a character
\* of its signature half flipped, is invalid for verifyCode.
C3_BitFlipRejected ==
  (last.op = "verifyCode" /\ last.req.kind = "bitflip") => ~last.resp.ok

(***************************************************************************)
(* C4, C5.  The validity window.                                           *)
(***************************************************************************)
\* C4: verifyCode returns invalid for every code made from an issued one
\* whenever now - createdAt >= 600000 ms, the difference of exactly 600000
\* included.
C4_InvalidFromTenMinutes ==
  last.op = "verifyCode"
    => \A c \in SourceOf(last.req) : Age(c) >= CODE_TTL_MS => ~last.resp.ok

\* C5: a correctly signed, unmodified code is accepted, with its payload, at
\* every time less than 10 minutes after createdAt and rejected at every
\* time more than 10 minutes after it.
C5_WindowAroundTenMinutes ==
  (last.op = "verifyCode" /\ last.req.kind = "intact")
    => \A c \in SourceOf(last.req) :
         /\ Age(c) < CODE_TTL_MS => last.resp.ok /\ last.resp.payload.t = "obj"
                                     /\ SamePayload(last.resp.payload, c.data)
         /\ Age(c) > CODE_TTL_MS => ~last.resp.ok

\* C5, witness: an unmodified code verified at createdAt + 9:59.999 is accepted.
C5_Witness ==
  /\ last.op = "verifyCode"
  /\ last.req.kind = "intact"
  /\ \E c \in SourceOf(last.req) : Age(c) = CODE_TTL_MS - 1
  /\ last.resp.ok

(***************************************************************************)
(* C6, C7.  PKCE at the token endpoint.                                    *)
(***************************************************************************)
\* C6: for every code bound to a code challenge, the token endpoint answers
\* 200 only if the request carries a code_verifier that matches the challenge
\* under the method applied to the payload, and then with the payload's
\* tokens; for a valid such code, no code_verifier is answered
\* invalid_request, one that does not match invalid_grant, one that matches
\* 200.
C6_PkceEnforced ==
  (last.op = "token" /\ IsRedeem(last.req) /\ last.req.kind \in {"intact", "padded"})
    => \A c \in SourceOf(last.req) :
         Truthy(Get(c.data, S_codeChallenge)) =>
           /\ last.resp.status = 200
                => /\ Truthy(QueryGet(last.req.params, "code_verifier"))
                   /\ PkceMatch(QueryGet(last.req.params, "code_verifier").v,
                                Get(c.data, S_codeChallenge), MethodApplied(c.data))
                   /\ last.resp.access_token = Get(c.data, S_accessToken)
                   /\ last.resp.refresh_token = Get(c.data, S_refreshToken)
           /\ Age(c) < CODE_TTL_MS
                => IF ~Truthy(QueryGet(last.req.params, "code_verifier"))
                   THEN last.resp.status = 400 /\ last.resp.error = "invalid_request"
                   ELSE IF ~PkceMatch(QueryGet(last.req.params, "code_verifier").v,
                                      Get(c.data, S_codeChallenge), MethodApplied(c.data))
                   THEN last.resp.status = 400 /\ last.resp.error = "invalid_grant"
                   ELSE last.resp.status = 200

\* C6, witness: a valid code bound to a challenge is redeemed with a
\* code_verifier that is not the one the challenge was made from, and the
\* answer is invalid_grant.
C6_Witness ==
  /\ last.op = "token"
  /\ IsRedeem(last.req)
  /\ last.req.kind = "intact"
  /\ QueryGet(last.req.params, "code_verifier") = Str(V_BAD)
  /\ \E c \in SourceOf(last.req) :
       /\ Get(c.data, S_codeChallenge) = Str(S256Challenge(V_GOOD))
       /\ Get(c.data, S_codeChallengeMethod) = Str(S_S256)
       /\ Age(c) < CODE_TTL_MS
  /\ last.resp.error = "invalid_grant"

\* C7 (amended): for every code bound to a code challenge whose recorded
\* method is a non-empty value other than 'S256' and 'plain', the token
\* endpoint returns tokens for no code_verifier; an absent or empty method is
\* taken as 'S256', so a valid code of that kind is redeemed by exactly the
\* verifiers whose S256 challenge is the recorded one.
C7_UnknownMethodNeverMatches ==
  (last.op = "token" /\ IsRedeem(last.req) /\ last.req.kind \in {"intact", "padded"})
    => \A c \in SourceOf(last.req) :
         Truthy(Get(c.data, S_codeChallenge)) =>
           /\ (Truthy(Get(c.data, S_codeChallengeMethod))
                 /\ Get(c.data, S_codeChallengeMethod) \notin {Str(S_S256), Str(S_plain)})
                => last.resp.status # 200 /\ last.resp.access_token = Undef
           /\ (~Truthy(Get(c.data, S_codeChallengeMethod)) /\ Age(c) < CODE_TTL_MS)
                => (last.resp.status = 200
                      <=> /\ Truthy(QueryGet(last.req.params, "code_verifier"))
                          /\ Get(c.data, S_codeChallenge)
                               = Str(S256Challenge(QueryGet(last.req.params, "code_verifier").v)))

\* C7, witness: a valid code whose recorded method is "S512" is redeemed with
\* the very string that is recorded as its challenge, and the answer is
\* invalid_grant.
C7_Witness ==
  /\ last.op = "token"
  /\ IsRedeem(last.req)
  /\ last.req.kind = "intact"
  /\ QueryGet(last.req.params, "code_verifier") = Str(V_GOOD)
  /\ \E c \in SourceOf(last.req) :
       /\ Get(c.data, S_codeChallenge) = Str(V_GOOD)
       /\ Get(c.data, S_codeChallengeMethod) = Str(S_S512)
       /\ Age(c) < CODE_TTL_MS
  /\ last.resp.status = 400
  /\ last.resp.error = "invalid_grant"

\* C7, as stated: for every code bound to a code challenge whose recorded
\* method is anything other than 'S256' or 'plain', the empty string and an
\* absent method included, the token endpoint never returns tokens.
C7_AbsentMethodNeverMatches ==
  (last.op = "token" /\ IsRedeem(last.req) /\ last.req.kind \in {"intact", "padded"})
    => \A c \in SourceOf(last.req) :
         (Truthy(Get(c.data, S_codeChallenge))
            /\ Get(c.data, S_codeChallengeMethod) \notin {Str(S_S256), Str(S_plain)})
           => last.resp.status # 200

(***************************************************************************)
(* C8, C9, C10.  The state blob and the callback.                          *)
(***************************************************************************)
\* C8: when the upstream provider returns to exactly the redirect_to URL of
\* an authorize request with redirect_uri R and state S, with its tokens or
\* its code added, the callback does not answer invalid_state, and a redirect
\* it answers goes to R with state S.
C8_BlobSurvivesRoundTrip ==
  (last.op = "callback" /\ last.req.honest /\ TokensOrCode(last.req))
    => /\ last.resp.error # "invalid_state"
       /\ last.resp.status = 302
            => /\ last.resp.location.url = R_OK
               /\ last.resp.location.query["state"] = CLIENT_STATE

\* C9: whenever the callback has tokens in hand and a state blob that decodes
\* to redirect_uri R and client state S, it answers 302 to R with a parameter
\* code that holds the code it minted and a parameter state equal to S.
C9_RedirectsWithCodeAndState ==
  (last.op = "callback" /\ TokensInHand(last.req) /\ BlobOf(last.req.query).ok
     /\ Get(BlobOf(last.req.query).val, S_client_redirect_uri).t = "str"
     /\ Get(BlobOf(last.req.query).val, S_client_state).t = "str")
    => /\ last.resp.status = 302
       /\ last.resp.minted
       /\ last.resp.location.url = Get(BlobOf(last.req.query).val, S_client_redirect_uri).v
       /\ DOMAIN last.resp.location.query = {"code", "state"}
       /\ last.resp.location.query["code"] = last.resp.code
       /\ last.resp.location.query["state"] = Get(BlobOf(last.req.query).val, S_client_state).v

\* C10: when the state blob is missing, does not decode, or decodes to JSON
\* without redirect_uri or without state, the callback answers invalid_state,
\* mints no code and issues no redirect, with an access token or an upstream
\* code on the request as without.
C10_FailsClosedOnBadBlob ==
  (last.op = "callback" /\ "error" \notin DOMAIN last.req.query
     /\ \/ ~BlobOf(last.req.query).ok
        \/ Get(BlobOf(last.req.query).val, S_client_redirect_uri).t # "str"
        \/ Get(BlobOf(last.req.query).val, S_client_state).t # "str")
    => /\ last.resp.status = 400
       /\ last.resp.error = "invalid_state"
       /\ ~last.resp.minted
       /\ last.resp.location = NoUrl

(***************************************************************************)
(* C11.  An upstream error ends the callback.                              *)
(***************************************************************************)
\* the other outcomes of a callback that answered with the error page
StoppedAtErrorPage(resp) ==
  /\ resp.status = 400
  /\ resp.kind = "html_error"
  /\ ~resp.minted
  /\ resp.fetches = 0
  /\ resp.location = NoUrl

\* C11: whenever the callback request carries a non-empty error parameter,
\* the handler answers with the HTML error page (400) and stops: it mints no
\* code, makes no upstream token call and issues no redirect, whatever state
\* blob, access_token or code the request carries besides.
C11_ErrorPageAndStop ==
  (last.op = "callback" /\ Truthy(QueryGet(last.req.query, "error")))
    => StoppedAtErrorPage(last.resp)

\* a request with an error, a decodable state blob, an access token and an
\* upstream code was answered with the error page
C11_Witness ==
  /\ last.op = "callback"
  /\ Truthy(QueryGet(last.req.query, "error"))
  /\ {"state", "access_token", "code"} \subseteq DOMAIN last.req.query
  /\ BlobOf(last.req.query).ok
  /\ StoppedAtErrorPage(last.resp)

\* C11 as stated: the same for every request that carries an error
\* parameter, the empty one included.
C11_AnyErrorParameter ==
  (last.op = "callback" /\ "error" \in DOMAIN last.req.query)
    => StoppedAtErrorPage(last.resp)

(***************************************************************************)
(* C12.  The redirect to the client carries the code, not the tokens.      *)
(***************************************************************************)
\* the upstream tokens the callback had in hand when it minted a code
TokensMinted(resp) ==
  {t \in {Get(resp.data, S_accessToken), Get(resp.data, S_refreshToken)} : Truthy(t)}

\* C12: the redirect the callback issues adds exactly two parameters to the
\* client's redirect_uri, code and state; code is the authorization code it
\* minted, and no parameter has the upstream access token or refresh token
\* as its value.
C12_RedirectCarriesNoTokens ==
  (last.op = "callback" /\ last.resp.status = 302)
    => /\ last.resp.minted
       /\ DOMAIN last.resp.location.query = {"code", "state"}
       /\ last.resp.location.query["code"] = last.resp.code
       /\ \A n \in DOMAIN last.resp.location.query :
            Str(last.resp.location.query[n]) \notin TokensMinted(last.resp)

\* a callback that had an access token and a refresh token redirected
C12_Witness ==
  /\ last.op = "callback"
  /\ last.resp.status = 302
  /\ TokensMinted(last.resp) = {Str(Q_ACCESS), Str(Q_REFRESH)}

(***************************************************************************)
(* C13.  Redemption returns the tokens the code was minted from.           *)
(***************************************************************************)
\* the upstream tokens (A, R) of a callback request: those on the URL, or
\* those the upstream provider returns for its code; R is '' where the
\* upstream provider gave no refresh token
UpstreamTokens(req) ==
  IF Truthy(QueryGet(req.query, "access_token"))
  THEN [A |-> QueryGet(req.query, "access_token"),
        R |-> OrElse(QueryGet(req.query, "refresh_token"), Str(<<>>))]
  ELSE [A |-> Str(UP_ACCESS),
        R |-> IF req.upstream = "ok" THEN Str(UP_REFRESH) ELSE Str(<<>>)]

\* C13: end to end, a code the callback mints binds the upstream tokens
\* (A, R) of its request, and every successful redemption of that code at the
\* token endpoint returns access_token = A, refresh_token = R, token_type
\* 'Bearer' and expires_in 3600.
C13_RedemptionReturnsMintedTokens ==
  /\ (last.op = "callback" /\ last.resp.minted)
       => /\ Get(last.resp.data, S_accessToken) = UpstreamTokens(last.req).A
          /\ Get(last.resp.data, S_refreshToken) = UpstreamTokens(last.req).R
  /\ (last.op = "token" /\ IsRedeem(last.req) /\ last.resp.status = 200)
       => /\ SourceOf(last.req) # {}
          /\ \A c \in SourceOf(last.req) :
               /\ last.resp.access_token = Get(c.data, S_accessToken)
               /\ last.resp.refresh_token = Get(c.data, S_refreshToken)
          /\ last.resp.token_type = "Bearer"
          /\ last.resp.expires_in = 3600

\* a code minted from (A, R) was redeemed with the right verifier and the
\* response carries A and R
C13_Witness ==
  /\ last.op = "token"
  /\ IsRedeem(last.req)
  /\ last.resp.status = 200
  /\ QueryGet(last.req.params, "code_verifier") = Str(V_GOOD)
  /\ last.resp.access_token = Str(Q_ACCESS)
  /\ last.resp.refresh_token = Str(Q_REFRESH)
  /\ \E c \in SourceOf(last.req) : Truthy(Get(c.data, S_codeChallenge))

(***************************************************************************)
(* C14.  Authorize validates redirect_uri and state.                       *)
(***************************************************************************)
\* the authorize request lacks redirect_uri or state, or has it empty
LacksRequired(query) ==
  \/ ~Truthy(QueryGet(query, "redirect_uri"))
  \/ ~Truthy(QueryGet(query, "state"))

\* C14: GET /oauth/authorize with redirect_uri or state missing or empty
\* answers 400 invalid_request with no redirect; with both present it answers
\* 302 to the upstream authorization endpoint, its redirect_to being the
\* callback URL.
C14_AuthorizeValidates ==
  last.op = "authorize"
    => IF LacksRequired(last.req.query)
       THEN /\ last.resp.status = 400
            /\ last.resp.error = "invalid_request"
            /\ last.resp.location = ""
            /\ last.resp.redirect_to = NoUrl
       ELSE /\ last.resp.status = 302
            /\ last.resp.error = ""
            /\ last.resp.location = "SUPABASE_URL/auth/v1/authorize"
            /\ last.resp.redirect_to # NoUrl

\* a request with a redirect_uri and an empty state was refused
C14_Witness ==
  /\ last.op = "authorize"
  /\ Truthy(QueryGet(last.req.query, "redirect_uri"))
  /\ QueryGet(last.req.query, "state") = Str(<<>>)
  /\ last.resp.status = 400

(***************************************************************************)
(* C15.  The shape of the token endpoint's responses.                      *)
(***************************************************************************)
\* C15: every response of POST /oauth/token that is not a success is HTTP
\* 400 with an error code in its JSON body and Cache-Control: no-store, also
\* for an application/json request whose body is not valid JSON; every
\* success sets Cache-Control: no-store too.
C15_ErrorsAre400NoStore ==
  last.op = "token"
    => /\ last.resp.cacheControl = "no-store"
       /\ last.resp.status \in {200, 400}
       /\ last.resp.status = 400 => last.resp.error # ""

(***************************************************************************)
(* C16.  Grant types the token endpoint does not know.                     *)
(***************************************************************************)
\* the token endpoint accepted the body: form-encoded, or JSON that parses
BodyAccepted(req) ==
  /\ req.contentType \in {"form", "json"}
  /\ req.bodyOk

\* C16: POST /oauth/token whose body is accepted and whose grant_type is
\* neither authorization_code nor refresh_token, or is absent, answers 400
\* unsupported_grant_type, with no call of verifyCode and no call to the
\* upstream provider.
C16_UnsupportedGrantType ==
  (/\ last.op = "token"
   /\ BodyAccepted(last.req)
   /\ QueryGet(last.req.params, "grant_type")
        \notin {Str(S_authorization_code), Str(S_refresh_token)})
    => /\ last.resp.status = 400
       /\ last.resp.error = "unsupported_grant_type"
       /\ last.resp.cacheControl = "no-store"
       /\ last.resp.verifyCalls = 0
       /\ last.resp.fetches = 0

\* a JSON request with no grant_type was answered unsupported_grant_type
C16_Witness ==
  /\ last.op = "token"
  /\ last.req.contentType = "json"
  /\ last.req.bodyOk
  /\ QueryGet(last.req.params, "grant_type") = Null
  /\ last.resp.error = "unsupported_grant_type"

(***************************************************************************)
(* The MCP endpoint: what a POST went through.                             *)
(***************************************************************************)
\* POST number h took the lost-state path: it made a transport of its own
\* for a request that is not initialize
Reconciled(h) ==
  /\ posts[h].t # 0
  /\ transports[posts[h].t].creator = h
  /\ posts[h].req.msg.method # "initialize"

\* nothing from outside disturbed POST number h: its transport calls did
\* not reject, and no DELETE closed its transport
Undisturbed(h) ==
  /\ ~posts[h].req.fault
  /\ ~transports[posts[h].t].closed

\* the response a client gets for req from a fresh session, after its
\* initialize and its notifications/initialized, when it sends req with the
\* session id the server assigned
NormalResponse(req) ==
  LET sid == randomUUID(1)
      After(t, r) == TransportHandle(t, 0, r, 1).t
  IN TransportHandle(
       After(After(NewTransport(sid, 0, req.auth),
                   McpRequest(req.auth, NoSid, "both", TRUE, Msg("initialize", "r0"))),
             McpRequest(req.auth, sid, "both", TRUE, Msg("notifications/initialized", ""))),
       0, [req EXCEPT !.sid = sid], 1).resp

\* the response answers the request itself: where it carries a result, the
\* id and the method are the request's
AnswersOwnRequest(req, resp) ==
  /\ resp.id \in {req.msg.id, ""}
  /\ resp.result \in {req.msg.method, ""}
  /\ resp.status = 200 => resp.id = req.msg.id /\ resp.result = req.msg.method

(***************************************************************************)
(* C17.  A reconciled request is answered as on a fresh session.           *)
(***************************************************************************)
\* C17: a POST that takes the lost-state path (session id unknown or absent,
\* method not initialize) and whose Accept header lists text/event-stream
\* gets the response a client gets for that request from a fresh session
\* after initialize and notifications/initialized; and for every Accept
\* header the response POST returns answers the caller's own request, never
\* the synthetic initialize or the synthetic notification.  (The transport
\* works and nobody tears the new session down meanwhile.)
C17_ReconciledLikeFreshSession ==
  \A h \in 1..MaxRequests :
    (posts[h].pc = "done" /\ Reconciled(h) /\ Undisturbed(h))
      => /\ posts[h].req.accept = "both"
              => posts[h].resp = NormalResponse(posts[h].req)
         /\ AnswersOwnRequest(posts[h].req, posts[h].resp)

\* a tools/list with an unknown session id was reconciled and answered with
\* its own result
C17_Witness ==
  \E h \in 1..MaxRequests :
    /\ posts[h].pc = "done"
    /\ Reconciled(h)
    /\ Undisturbed(h)
    /\ posts[h].req.sid = CLIENT_SID
    /\ posts[h].req.accept = "both"
    /\ posts[h].req.msg = Msg("tools/list", RequestId(h))
    /\ posts[h].resp = McpResponse(200, "", RequestId(h), "tools/list")

\* C17 as stated: every POST that takes the lost-state path gets the
\* response of the fresh session, whatever its headers.
C17_AnyRequestLikeFreshSession ==
  \A h \in 1..MaxRequests :
    (posts[h].pc = "done" /\ Reconciled(h) /\ Undisturbed(h))
      => posts[h].resp = NormalResponse(posts[h].req)

(***************************************************************************)
(* C18.  The three requests of a reconciliation, in order.                 *)
(***************************************************************************)
\* the requests the transport of POST number h received from that POST
HandlerLog(h) ==
  LET Mine(e) == e.by = h
  IN SelectSeq(transports[posts[h].t].log, Mine)

\* how many requests POST number h has passed to its transport when it is
\* at pc
Delivered(pc) ==
  CASE pc = "init" -> 0
    [] pc = "notify" -> 1
    [] pc = "forward" -> 2
    [] pc = "done" -> 3

\* the first k requests of the log are those of a reconciliation for the
\* request req under session id sid, each handled before the next
ReconciliationLog(log, k, h, req, sid) ==
  /\ Len(log) = k
  /\ k >= 1 => log[1] = [by |-> h, method |-> "initialize", id |-> "synthetic-init",
                         sid |-> sid, status |-> 200, tool |-> "", arg |-> "",
                         phone |-> ""]
  /\ k >= 2 => log[2] = [by |-> h, method |-> "notifications/initialized", id |-> "",
                         sid |-> sid, status |-> 202, tool |-> "", arg |-> "",
                         phone |-> ""]
  /\ k >= 3 => /\ log[3].method = req.msg.method
               /\ log[3].id = req.msg.id
               /\ log[3].sid = sid
               /\ log[3].status \in {200, 202}

\* C18: on the lost-state path the new transport receives from the handler
\* exactly three requests, in this order: the synthetic initialize, the
\* synthetic notifications/initialized, then the caller's request with the
\* session id attached; at every moment the handler's requests are the first
\* ones of that list, each handled before the next is passed on.  (The
\* transport works and nobody tears the new session down meanwhile.)
C18_ThreeRequestsInOrder ==
  \A h \in 1..MaxRequests :
    (Reconciled(h) /\ Undisturbed(h))
      => /\ transports[posts[h].t].generator # NoSid
         /\ ReconciliationLog(HandlerLog(h), Delivered(posts[h].pc), h, posts[h].req,
                              transports[posts[h].t].generator)

\* a reconciliation for a request without a session id has run to its end:
\* three requests, the last one with the generated id attached
C18_Witness ==
  \E h \in 1..MaxRequests :
    /\ Reconciled(h)
    /\ Undisturbed(h)
    /\ posts[h].pc = "done"
    /\ posts[h].req.sid = NoSid
    /\ Len(HandlerLog(h)) = 3
    /\ HandlerLog(h)[3].sid.src = "uuid"
    /\ HandlerLog(h)[3].method = "tools/list"

(***************************************************************************)
(* C19.  Concurrent requests with the same unknown session id.             *)
(***************************************************************************)
\* the request is one a session would serve: a POST with a credential, a
\* JSON body and an Accept header with both types, on a transport that works
WellFormed(req) ==
  req.verb = "POST" /\ req.auth # "" /\ req.bodyOk /\ req.accept = "both" /\ ~req.fault

\* the POSTs that carry the client's session id and a method that is not
\* initialize
Bearers ==
  {h \in 1..MaxRequests :
     /\ posts[h].pc # "idle"
     /\ posts[h].req.sid = CLIENT_SID
     /\ WellFormed(posts[h].req)
     /\ posts[h].req.msg.method # "initialize"}

\* the registry's entries for a session id
EntriesFor(id) == {e \in sessions : e.id = id}

\* the transports initialised under a session id
InitialisedAs(id) ==
  {i \in DOMAIN transports : transports[i].initialized /\ transports[i].sessionId = id}

\* the session id is kept: no DELETE names it, and the timer of every one
\* of its registrations is still pending
Kept(id) ==
  /\ \A h \in 1..MaxRequests : ~(posts[h].req.verb = "DELETE" /\ posts[h].req.sid = id)
  /\ \A i \in InitialisedAs(id) : \E tm \in timers : tm.id = id /\ tm.t = i /\ ~tm.fired

\* C19: when several well-formed POSTs with the same unknown session id and
\* a method that is not initialize are handled, in any interleaving, each
\* gets the valid response to its own request (the one of a fresh session),
\* and once all of them are done the registry holds exactly one entry for
\* that id, an initialised transport with that session id.  (The id is
\* neither torn down nor evicted meanwhile.)
C19_ConcurrentBearersServed ==
  Kept(CLIENT_SID) =>
  /\ \A h \in Bearers :
       posts[h].pc = "done"
         => /\ posts[h].resp.status \in {200, 202}
            /\ posts[h].resp = NormalResponse(posts[h].req)
  /\ (Bearers # {} /\ \A h \in Bearers : posts[h].pc = "done")
       => /\ Cardinality(EntriesFor(CLIENT_SID)) = 1
          /\ \A e \in EntriesFor(CLIENT_SID) :
               /\ transports[e.t].initialized
               /\ transports[e.t].sessionId = CLIENT_SID

\* two POSTs with the same unknown id both took the lost-state path, each
\* with a transport of its own, and both are done
C19_Witness ==
  /\ Kept(CLIENT_SID)
  /\ Cardinality(Bearers) >= 2
  /\ \A h \in Bearers : posts[h].pc = "done" /\ Reconciled(h)
  /\ Cardinality({posts[h].t : h \in Bearers}) >= 2

(***************************************************************************)
(* C20.  Registration as insert-if-absent.                                 *)
(***************************************************************************)
\* the one of them that was registered first
FirstRegistered(id) ==
  CHOOSE i \in InitialisedAs(id) :
    \A j \in InitialisedAs(id) : transports[i].regNo <= transports[j].regNo

StepOf(h) == posts'[h] # posts[h]

(***************************************************************************)
(* C21.  No credential, no effect.                                         *)
(***************************************************************************)
\* C21: a POST, GET or DELETE that carries neither a bearer token nor an API
\* key is rejected as unauthenticated (401) before any registry lookup, and
\* leaves the registry and every session's transport unchanged.
C21_NoCredentialNoEffect ==
  [][\A h \in 1..MaxRequests :
       (StepOf(h) /\ posts'[h].req.auth = "")
         => /\ posts'[h].pc = "done"
            /\ posts'[h].resp.status = 401
            /\ posts'[h].t = 0
            /\ sessions' = sessions
            /\ transports' = transports]_vars


(***************************************************************************)
(* C22.  The credential of a session.                                      *)
(***************************************************************************)
\* the bearer credential the protocol server of a registry entry is bound to
CredentialOf(registry, ts, id) == ts[SessionsGet(registry, id)].auth

\* C22: a session's credential is fixed at creation: the credential bound
\* to the server of every registry entry is the one of the request that
\* created it, and while a session id stays in the registry no step changes
\* the credential its entry is bound to.
C22_CredentialFixedAtCreation ==
  [][/\ \A e \in sessions' :
          transports'[e.t].auth = posts'[transports'[e.t].creator].req.auth
     /\ \A id \in RegisteredSids :
          SessionsHas(sessions', id)
            => CredentialOf(sessions', transports', id)
                 = CredentialOf(sessions, transports, id)]_vars


(***************************************************************************)
(* C23.  Where the session ids of the registry come from.                  *)
(***************************************************************************)
\* the request that made the transport of a registry entry
CreatorRequest(e) == posts[transports[e.t].creator].req

\* C23 as stated: every key of the registry was generated by the server; a
\* client-chosen value of Mcp-Session-Id never becomes the id of a
\* registered session.
C23_OnlyServerGeneratedIds ==
  \A e \in sessions : e.id.src = "uuid"

\* C23: the key of a registry entry is the id its transport's generator
\* returns: the Mcp-Session-Id value of the request that created the
\* session when that request carried one, and a value of
\* crypto.randomUUID() only when it carried none.
C23_IdOfCreatingRequest ==
  \A e \in sessions :
    /\ e.id = transports[e.t].generator
    /\ e.id = transports[e.t].sessionId
    /\ IF CreatorRequest(e).sid = NoSid
       THEN e.id.src = "uuid"
       ELSE e.id = CreatorRequest(e).sid

\* the registry holds a session under an id the server generated and one
\* under the id a client chose
C23_Witness ==
  /\ \E e \in sessions : e.id.src = "uuid" /\ CreatorRequest(e).sid = NoSid
  /\ \E e \in sessions : e.id = CLIENT_SID /\ CreatorRequest(e).sid = CLIENT_SID


(***************************************************************************)
(* C24.  Eviction is fixed, not sliding.                                   *)
(***************************************************************************)
\* the session id was not registered again after the registration of tm
LastRegistration(tm) ==
  \A other \in timers : other.id = tm.id => other.regAt <= tm.regAt

\* C24: a session registered at time t, and not registered again under the
\* same id, is absent from the registry at time t + 30 minutes, however many
\* requests were routed to it in between; and the steps that handle a
\* request for a known session leave the timers as they are.
C24_FixedEviction ==
  /\ [](\A tm \in timers :
          (LastRegistration(tm) /\ now >= tm.regAt + SESSION_TTL_MS)
            => ~SessionsHas(sessions, tm.id))
  /\ [][\A h \in 1..MaxRequests :
          (posts[h].pc = "routed" /\ StepOf(h)) => timers' = timers]_vars

\* a session was registered, a later POST was routed to it and answered,
\* and 30 minutes after the registration the id is absent
C24_Witness ==
  \E tm \in timers : \E h \in 1..MaxRequests :
    /\ LastRegistration(tm)
    /\ now >= tm.regAt + SESSION_TTL_MS
    /\ tm.fired
    /\ posts[h].pc = "done"
    /\ posts[h].t = tm.t
    /\ posts[h].req.verb = "POST"
    /\ transports[tm.t].creator # h
    /\ posts[h].resp.status = 200
    /\ ~SessionsHas(sessions, tm.id)


(***************************************************************************)
(* C25.  Teardown of a known session.                                      *)
(***************************************************************************)
\* request number h is a DELETE that found its session id in the registry
\* and whose transport.close() completed
TornDown(h) ==
  /\ posts[h].req.verb = "DELETE"
  /\ posts[h].pc = "done"
  /\ posts[h].t # 0
  /\ ~posts[h].req.fault

\* C25: DELETE with a session id that is in the registry closes that
\* session's transport and removes the entry in its own handling, whether or
\* not the eviction timer has run, and answers 204: when it returns the
\* transport is closed and the id is absent; and an authenticated GET that
\* arrives while the id is absent answers 404 SESSION_NOT_FOUND.
C25_TeardownRemovesEntry ==
  [][\A h \in 1..MaxRequests :
       /\ (StepOf(h) /\ TornDown(h)')
            => /\ posts'[h].resp = McpResponse(204, "", "", "")
               /\ transports'[posts'[h].t].closed
               /\ transports'[posts'[h].t].sessionId = posts'[h].req.sid
               /\ ~SessionsHas(sessions', posts'[h].req.sid)
       /\ (StepOf(h) /\ posts[h].pc = "idle" /\ posts'[h].req.verb = "GET"
             /\ posts'[h].req.auth # "" /\ ~SessionsHas(sessions, posts'[h].req.sid))
            => /\ posts'[h].pc = "done"
               /\ posts'[h].resp = McpResponse(404, "SESSION_NOT_FOUND", "", "")]_vars

\* a DELETE removed a session whose timer was still pending, and a GET with
\* that id that arrived afterwards was answered 404
C25_Witness ==
  \E h \in 1..MaxRequests : \E g \in 1..MaxRequests :
    /\ TornDown(h)
    /\ posts[h].resp.status = 204
    /\ \E tm \in timers : tm.t = posts[h].t /\ ~tm.fired
    /\ g > h
    /\ posts[g].pc = "done"
    /\ posts[g].req = GetRequest("tok", posts[h].req.sid)
    /\ posts[g].resp = McpResponse(404, "SESSION_NOT_FOUND", "", "")
    /\ transports[posts[h].t].closed
    /\ ~SessionsHas(sessions, posts[h].req.sid)


(***************************************************************************)
(* C26.  DELETE of a session that is not there.                            *)
(***************************************************************************)
\* C26: DELETE with a session id that is not in the registry, or with no
\* session id, answers 204 and leaves the registry unchanged: no entry is
\* added, removed or replaced, no transport is closed, no timer is touched.
C26_DeleteUnknownIsNoOp ==
  [][\A h \in 1..MaxRequests :
       (StepOf(h) /\ posts[h].pc = "idle" /\ posts'[h].req.verb = "DELETE"
          /\ ~SessionsHas(sessions, posts'[h].req.sid))
         => /\ posts'[h].pc = "done"
            /\ posts'[h].resp = McpResponse(204, "", "", "")
            /\ sessions' = sessions
            /\ transports' = transports
            /\ timers' = timers]_vars

\* while a session is registered, a DELETE without a session id and one with
\* an id the registry does not hold were answered 204, and the session is
\* still there with its transport open
C26_Witness ==
  \E h \in 1..MaxRequests : \E g \in 1..MaxRequests :
    /\ posts[h].pc = "done" /\ posts[h].req = DeleteRequest("tok", NoSid)
    /\ posts[g].pc = "done" /\ posts[g].req = DeleteRequest("tok", CLIENT_SID)
    /\ posts[h].resp.status = 204 /\ posts[g].resp.status = 204
    /\ sessions # {}
    /\ ~SessionsHas(sessions, CLIENT_SID)
    /\ \A e \in sessions : ~transports[e.t].closed


(***************************************************************************)
(* C27.  GET changes nothing.                                              *)
(***************************************************************************)
\* C27: an authenticated GET with an absent or unknown session id answers
\* 404 SESSION_NOT_FOUND; and no step of a GET creates a transport, starts a
\* reconciliation, or changes the registry or its timers: a GET is answered
\* at once or routed to the transport of a session that is registered.
C27_GetNeverCreates ==
  [][\A h \in 1..MaxRequests :
       (StepOf(h) /\ posts'[h].req.verb = "GET")
         => /\ sessions' = sessions
            /\ timers' = timers
            /\ Len(transports') = Len(transports)
            /\ posts'[h].pc \in {"routed", "done"}
            /\ posts'[h].t # 0 => transports[posts'[h].t].creator # h
            /\ (posts[h].pc = "idle" /\ posts'[h].req.auth # ""
                  /\ ~SessionsHas(sessions, posts'[h].req.sid))
                 => /\ posts'[h].pc = "done"
                    /\ posts'[h].resp = McpResponse(404, "SESSION_NOT_FOUND", "", "")]_vars

\* a GET with an unknown id and a GET without an id were answered 404, and
\* a GET with the id of the registered session got its event stream; the
\* only transport is the one the POST made
C27_Witness ==
  /\ \E h \in 1..MaxRequests :
       /\ posts[h].pc = "done"
       /\ posts[h].req \in {GetRequest("tok", CLIENT_SID), GetRequest("tok", NoSid)}
       /\ posts[h].resp = McpResponse(404, "SESSION_NOT_FOUND", "", "")
  /\ \E g \in 1..MaxRequests :
       /\ posts[g].pc = "done"
       /\ posts[g].req.verb = "GET"
       /\ posts[g].t # 0
       /\ posts[g].resp = McpResponse(200, "", "", "stream")
  /\ Len(transports) = 1
  /\ Cardinality(sessions) = 1


(***************************************************************************)
(* C28.  A body that is not JSON.                                          *)
(***************************************************************************)
\* C28: an authenticated POST with an unknown or absent session id and a
\* body that is not valid JSON answers the JSON-RPC parse error (HTTP 400,
\* code -32700), not a session error, and creates no transport and no
\* registry entry: none of its steps changes the registry, the transports
\* or the timers.
C28_ParseErrorCreatesNothing ==
  [][\A h \in 1..MaxRequests :
       (StepOf(h) /\ posts'[h].req.verb = "POST" /\ posts'[h].req.auth # ""
          /\ ~posts'[h].req.bodyOk
          /\ posts[h].pc # "routed" /\ posts'[h].pc # "routed")
         => /\ sessions' = sessions
            /\ transports' = transports
            /\ timers' = timers
            /\ posts'[h].pc \in {"parsing", "done"}
            /\ posts'[h].pc = "done"
                 => posts'[h].resp = McpResponse(400, "parse_error", "", "")]_vars

\* a POST without a session id and a POST with an unknown one, both with a
\* body that is not JSON, were answered with the parse error, and no
\* transport exists
C28_Witness ==
  /\ \E h \in 1..MaxRequests :
       /\ posts[h].pc = "done"
       /\ posts[h].req = McpRequest("tok", NoSid, "both", FALSE, Msg("", ""))
       /\ posts[h].resp = McpResponse(400, "parse_error", "", "")
  /\ \E g \in 1..MaxRequests :
       /\ posts[g].pc = "done"
       /\ posts[g].req = McpRequest("tok", CLIENT_SID, "both", FALSE, Msg("", ""))
       /\ posts[g].resp = McpResponse(400, "parse_error", "", "")
  /\ transports = <<>>
  /\ sessions = {}


(***************************************************************************)
(* C29.  Failures at the boundary.                                         *)
(***************************************************************************)
\* C29: every failure raised while a request to the endpoint is handled,
\* the fault of a registered session's transport and the fault of
\* transport.close() in DELETE included, ends as a structured JSON-RPC error
\* response; no exception escapes the POST, GET or DELETE handler.
C29_NoExceptionEscapes ==
  \A h \in 1..MaxRequests :
    (posts[h].pc = "done" /\ posts[h].req.auth # "" /\ posts[h].req.fault)
      => posts[h].resp = McpResponse(500, "internal_error", "", "")


(***************************************************************************)
(* C30.  No upstream call is retried.                                      *)
(***************************************************************************)
\* the one call the request made to the upstream provider failed
UpstreamFailed(req, resp) ==
  resp.fetches >= 1 /\ req.upstream \in {"rejected", "network"}

\* C30: each request to the token endpoint and each callback request makes
\* at most one call to the identity provider (the token endpoint only for
\* the refresh_token grant, the callback only for the upstream code), and a
\* failed call ends the request with an error response, invalid_grant or
\* server_error at the token endpoint and the HTML error page at the
\* callback, without minting a code and without returning tokens.
C30_NoUpstreamRetry ==
  /\ last.op = "token"
       => /\ last.resp.fetches <= 1
          /\ last.resp.fetches = 1
               => QueryGet(last.req.params, "grant_type") = Str(S_refresh_token)
          /\ UpstreamFailed(last.req, last.resp)
               => /\ last.resp.status = 400
                  /\ last.resp.error
                       = (IF last.req.upstream = "network"
                          THEN "server_error" ELSE "invalid_grant")
                  /\ last.resp.access_token = Undef
                  /\ last.resp.refresh_token = Undef
  /\ last.op = "callback"
       => /\ last.resp.fetches <= 1
          /\ last.resp.fetches = 1 => Truthy(QueryGet(last.req.query, "code"))
          /\ UpstreamFailed(last.req, last.resp)
               => /\ last.resp.status = 500
                  /\ last.resp.kind = "html_error"
                  /\ ~last.resp.minted
                  /\ last.resp.code = <<>>
                  /\ last.resp.location = NoUrl

\* the upstream provider rejected the code of a callback request with a
\* state that decodes: one call, the error page, no code minted
C30_Witness ==
  /\ last.op = "callback"
  /\ BlobOf(last.req.query).ok
  /\ Truthy(QueryGet(last.req.query, "code"))
  /\ last.req.upstream = "rejected"
  /\ last.resp.fetches = 1
  /\ last.resp.kind = "html_error"
  /\ ~last.resp.minted

(***************************************************************************)
(* C31.  Redeeming a code keeps no record of it.                           *)
(***************************************************************************)
\* the instants at which the request in `last` may be sent again
ReplayTimes == {now} \cup {now + d : d \in ClockSteps}

\* POST /oauth/token answers the request req at Date.now() = at
Replayed(req, at) ==
  TokenPOST(req.contentType, req.bodyOk, req.params, req.upstream, at)

\* the code of the request is still inside its 10-minute window at `at`
InsideWindow(req, at) ==
  \A c \in SourceOf(req) : at - Get(c.data, S_createdAt).v[1] <= CODE_TTL_MS

C32_SuffixRejected ==
  (last.op = "verifyCode" /\ last.req.kind = "suffix") => ~last.resp.ok

(***************************************************************************)
(* C33.  The registry holds initialised transports only.                   *)
(***************************************************************************)
\* the transport has answered an initialize request
HandledInitialize(t) ==
  /\ t.initialized
  /\ \E i \in DOMAIN t.log : t.log[i].method = "initialize" /\ t.log[i].status = 200

\* C33: in every reachable state every transport in the registry has handled
\* an initialize request and is entered under the session id it took then;
\* an entry is added only in the step in which its transport is initialised.
C33_RegisteredAreInitialized ==
  /\ [](\A e \in sessions :
          /\ e.t \in DOMAIN transports
          /\ HandledInitialize(transports[e.t])
          /\ transports[e.t].sessionId = e.id)
  /\ [][\A e \in sessions' \ sessions :
          /\ e.t \in DOMAIN transports
          /\ ~transports[e.t].initialized
          /\ transports'[e.t].initialized]_vars

\* a session is registered under an id while another transport, made for the
\* same id, has been connected and has not been initialised
C33_Witness ==
  \E e \in sessions : \E i \in DOMAIN transports :
    /\ i # e.t
    /\ ~transports[i].initialized
    /\ transports[i].generator = e.id

(***************************************************************************)
(* C34.  Reconciliation bootstraps a session once.                         *)
(***************************************************************************)
\* POST number h carried a session id of the client's, took the lost-state
\* path and has been answered
BootstrappedBy(h) ==
  /\ posts[h].pc = "done"
  /\ posts[h].req.verb = "POST"
  /\ posts[h].req.sid # NoSid
  /\ Reconciled(h)
  /\ ~posts[h].req.fault
  /\ posts[h].resp.status \in {200, 202}

\* C34: after a lost-state POST with the client's session id X has
\* completed, X is in the registry, and (while X is neither torn down nor
\* evicted) every POST bearing X that arrives later is routed to the
\* transport that POST made, with no new transport and no change to the
\* registry.
C34_BootstrapsOnce ==
  /\ [](\A h \in 1..MaxRequests :
          (BootstrappedBy(h) /\ Kept(posts[h].req.sid))
            => SessionsHas(sessions, posts[h].req.sid))
  /\ [][\A h \in 1..MaxRequests : \A g \in 1..MaxRequests :
          (/\ BootstrappedBy(h)
           /\ Kept(posts[h].req.sid)
           /\ posts[g].pc = "idle"
           /\ StepOf(g)
           /\ posts'[g].req.verb = "POST"
           /\ posts'[g].req.auth # ""
           /\ posts'[g].req.sid = posts[h].req.sid)
            => /\ posts'[g].pc = "routed"
               /\ posts'[g].t = posts[h].t
               /\ transports' = transports
               /\ sessions' = sessions]_vars

(***************************************************************************)
(* C35.  A timer and the registration it was scheduled for.                *)
(***************************************************************************)
\* the registration of timer tm is the latest one under its session id
LatestUnderId(tm) ==
  \A other \in timers :
    other.id = tm.id => transports[other.t].regNo <= transports[tm.t].regNo

\* no DELETE was sent for the session id
NeverDeleted(id) ==
  \A h \in 1..MaxRequests : ~(posts[h].req.verb = "DELETE" /\ posts[h].req.sid = id)

\* C35: an eviction timer removes only the registration it was scheduled
\* for: when time passes, every entry that leaves the registry is one whose
\* own timer came due; and the latest registration under an id, when no
\* DELETE was sent for the id, is in the registry until 30 minutes after it
\* was made, also when the id was registered before.
C35_TimerRemovesOwnRegistration ==
  /\ [][now' # now
          => \A e \in sessions \ sessions' :
               \E tm \in timers :
                 /\ tm.id = e.id
                 /\ tm.t = e.t
                 /\ ~tm.fired
                 /\ tm.at <= now']_vars
  /\ [](\A tm \in timers :
          (/\ LatestUnderId(tm)
           /\ NeverDeleted(tm.id)
           /\ now < tm.regAt + SESSION_TTL_MS)
            => [id |-> tm.id, t |-> tm.t] \in sessions)

(***************************************************************************)
(* C36.  The credential a request is executed with.                        *)
(***************************************************************************)
\* the entries of a transport's log that are POSTs the transport served
ServedPosts(t) ==
  {k \in DOMAIN t.log :
     /\ posts[t.log[k].by].req.verb = "POST"
     /\ t.log[k].status \in {200, 202}}

\* C36: a request is executed with the bearer credential it presented: the
\* protocol server that serves a POST is bound to the credential of that
\* POST.
C36_ServedWithOwnCredential ==
  \A i \in DOMAIN transports : \A k \in ServedPosts(transports[i]) :
    transports[i].auth = posts[transports[i].log[k].by].req.auth

(***************************************************************************)
(* C37.  A concurrent POST during a reconciliation.                        *)
(***************************************************************************)
\* the messages of the handshake
Handshake == {"initialize", "notifications/initialized"}

\* the transport was made by a POST on the lost-state path
MadeByReconciliation(t) == posts[t.creator].req.msg.method # "initialize"

\* C37: while a reconciliation for a session id is in progress no concurrent
\* POST is routed to the new transport too early: every request outside the
\* handshake that a transport made by a reconciliation serves comes after
\* the synthetic notifications/initialized of the POST that made it.
C37_NothingBeforeInitialized ==
  \A i \in DOMAIN transports :
    MadeByReconciliation(transports[i])
      => \A k \in ServedPosts(transports[i]) :
           transports[i].log[k].method \notin Handshake
             => \E j \in 1..(k - 1) :
                  /\ transports[i].log[j].method = "notifications/initialized"
                  /\ transports[i].log[j].by = transports[i].creator

(***************************************************************************)
(* C38.  DELETE while other requests are handled.                          *)
(***************************************************************************)
\* C38: DELETE removes only the entry whose transport it closed, and no
\* POST or GET is handed to a transport that has been closed.
C38_DeleteRemovesWhatItClosed ==
  /\ [][\A h \in 1..MaxRequests :
          (posts[h].pc = "closing" /\ StepOf(h))
            => sessions \ sessions' \subseteq {[id |-> posts[h].req.sid, t |-> posts[h].t]}]_vars
  /\ [][\A h \in 1..MaxRequests :
          (posts[h].pc = "routed" /\ StepOf(h)) => ~transports[posts[h].t].closed]_vars

(***************************************************************************)
(* C39.  What a code shows to whoever sees it.                             *)
(***************************************************************************)
\* what an observer computes from a code with no key and no verifier: the
\* text before the first '.', base64url-decoded and read as JSON
ObserverReads(code) ==
  LET Read(payloadJson) ==
        IF ~payloadJson.ok THEN [ok |-> FALSE, val |-> Undef]
        ELSE JsonParse(payloadJson.v)
  IN Read(atob(base64UrlToBase64(PayloadHalf(code))))

\* C39: a code protects the tokens it carries: from an issued code alone,
\* without the signing secret and without the code_verifier, an observer
\* obtains neither the upstream access token nor the refresh token bound to
\* the code.
C39_CodeHidesTokens ==
  \A c \in issued :
    \/ ~ObserverReads(c.code).ok
    \/ /\ Get(ObserverReads(c.code).val, S_accessToken) # Get(c.data, S_accessToken)
       /\ Get(ObserverReads(c.code).val, S_refreshToken) # Get(c.data, S_refreshToken)

(***************************************************************************)
(* C40.  The selected phone and the session.                               *)
(***************************************************************************)
\* POST number h was select_phone(P) with a phone of the list, and succeeded
\* under the session id id
SelectedUnder(h, P, id) ==
  /\ posts[h].pc = "done"
  /\ posts[h].req.msg.tool = "select_phone"
  /\ posts[h].req.msg.arg = P
  /\ \E i \in DOMAIN PHONES : PHONES[i] = P
  /\ posts[h].resp.status = 200
  /\ posts[h].t # 0
  /\ transports[posts[h].t].sessionId = id

\* the phone the last call of a transport was made for
ActedOn(t) == t.log[Len(t.log)].phone

=============================================================================
